---- MODULE Spec2Model ----
(***************************************************************************)
(* A model of rct_progress: the CSS0.DAT decoder of                        *)
(* src/src/rct_progress/core.py (checksum, RLE decompression, word         *)
(* decryption, fixed-offset table parsing, process_file) and the score     *)
(* builder of src/src/rct_progress/highscores.py.                          *)
(*                                                                         *)
(* Bytes are the integers 0..255 and a bytes object is a sequence of them. *)
(* Python indices are 0-based: the byte Python calls data[k] is the        *)
(* element k+1 of the sequence.  A Python int that may exceed 2^31 is the  *)
(* set of the positions of its 1 bits, so that <<, >>, | and & are         *)
(* computed as the code computes them and no width is assumed.             *)
(***************************************************************************)
EXTENDS Integers, Sequences, FiniteSets, TLC

VARIABLES
    \* verify_checksum (core.py:129-150)
    ckData, ckExpected, total, ckPos, ckPc, ckResult,
    \* rle_decompress (core.py:59-100)
    data, body, i, out, reads, unit, rlePc,
    \* decrypt_dwords_le (core.py:103-126)
    decData, decOut, decI, decPc,
    \* parse_tables (core.py:207-259): the buffer, the four tables read so far,
    \* the rows, the byte ranges read, and the position in the function
    decrypted, files, names, comps, wins, rows, preads, parsePc,
    \* process_file (core.py:282-327) and _run_build (highscores.py:232-258):
    \* the archive, the caller and its options, the position, the exception
    \* raised, the stages run, process_file's locals, _run_build's
    \* existing_map, and the files (None when a file does not exist)
    raw, mode, keep, merge, pc, err, stages,
    decompr_raw, decryptedBytes, parsedRows, existing_map,
    fsCsv, fsDecompressed, fsDecrypted, fsScore, fsScoreBefore, writes,
    \* to_money64 (highscores.py:40-50): the argument, the position, the result
    mField, mPc, mOut,
    \* best_map_from_rows (highscores.py:130-148): the rows, the position, the result
    bmRows, bmPc, bmOut,
    \* write_from_map and load_highscores (highscores.py:110-127, 151-162): a
    \* map, a map of the same entries inserted in another order, the files
    \* written from them, the map loaded from the first, the position
    cMap, cOther, cFile, cFileOther, cLoaded, cPc,
    \* _run_build on a CSV file (highscores.py:232-258), run after run on one
    \* output path: the file there (None when there is none), and of the last
    \* run the file before it, the rows read, the merge flag, the map handed
    \* to write_from_map (None when it was not called), the exception that
    \* ended it, the number of runs so far, the file before the first run,
    \* and the rows and merge flag of every run so far
    bFile, bBefore, bRows, bMerge, bHanded, bExc, bPc, bN, bFirst, bHist,
    \* two operations at once, process_file or _run_build on an archive, each
    \* a process of its own: per operation its arguments, position and
    \* locals; the files of the file system they share (None when a file does
    \* not exist); and which operation has read or written which file
    pOp, pFs, pLog,
    \* build_from_rows (highscores.py:53-72): the rows, the file written
    \* (None before it is opened), the exception that ended it, the position
    rbRows, rbFile, rbExc, rbPc,
    \* rle_decode (rct_progess.py:66-83): the argument, the result, the position
    rdData, rdOut, rdPc

chkVars == <<ckData, ckExpected, total, ckPos, ckPc, ckResult>>
rleVars == <<data, body, i, out, reads, unit, rlePc>>
decVars == <<decData, decOut, decI, decPc>>
parseVars == <<decrypted, files, names, comps, wins, rows, preads, parsePc>>
runVars == <<raw, mode, keep, merge, pc, err, stages,
             decompr_raw, decryptedBytes, parsedRows, existing_map,
             fsCsv, fsDecompressed, fsDecrypted, fsScore, fsScoreBefore, writes>>
moneyVars == <<mField, mPc, mOut>>
bestVars == <<bmRows, bmPc, bmOut>>
codecVars == <<cMap, cOther, cFile, cFileOther, cLoaded, cPc>>
buildVars == <<bFile, bBefore, bRows, bMerge, bHanded, bExc, bPc, bN, bFirst, bHist>>
scoreVars == <<moneyVars, bestVars, codecVars, buildVars>>
parVars == <<pOp, pFs, pLog>>
rowsVars == <<rbRows, rbFile, rbExc, rbPc>>
rdVars == <<rdData, rdOut, rdPc>>
moreVars == <<parVars, rowsVars, rdVars>>
vars == <<chkVars, rleVars, decVars, parseVars, runVars, scoreVars, moreVars>>

\* What each component leaves alone: the variables of the others.
notChk == <<rleVars, decVars, parseVars, runVars, scoreVars, moreVars>>
notRle == <<chkVars, decVars, parseVars, runVars, scoreVars, moreVars>>
notDec == <<chkVars, rleVars, parseVars, runVars, scoreVars, moreVars>>
notParse == <<chkVars, rleVars, decVars, runVars, scoreVars, moreVars>>
notRun == <<chkVars, rleVars, decVars, parseVars, scoreVars, moreVars>>
coreVars == <<chkVars, rleVars, decVars, parseVars, runVars>>
notMoney == <<coreVars, bestVars, codecVars, buildVars, moreVars>>
notBest == <<coreVars, moneyVars, codecVars, buildVars, moreVars>>
notCodec == <<coreVars, moneyVars, bestVars, buildVars, moreVars>>
notBuild == <<coreVars, moneyVars, bestVars, codecVars, moreVars>>
notPar == <<coreVars, scoreVars, rowsVars, rdVars>>
notRows == <<coreVars, scoreVars, parVars, rdVars>>
notRd == <<coreVars, scoreVars, parVars, rowsVars>>

(***************************************************************************)
(* Bounds of the model.                                                    *)
(***************************************************************************)
MaxChkLen == 4
MaxBodyLen == 4
MaxDecLen == 8
MaxExtraRecs == 1
MaxArchiveBody == 2

(***************************************************************************)
(* Small helpers.                                                          *)
(***************************************************************************)
Max(a, b) == IF a >= b THEN a ELSE b
Min(a, b) == IF a <= b THEN a ELSE b

SeqsUpTo(S, n) == UNION {[1..k -> S] : k \in 0..n}

\* A function with domain 1..n as an explicit tuple of its n values.
Tup(f, n) == SubSeq(f, 1, n)

\* TLC evaluates an operator's argument where it is first read, inside whatever
\* is being evaluated then.  Reading v here, before a recursive call that passes
\* v on, evaluates it at once, as a loop evaluates its running value.
Now(v) == v = v

\* Python's s[a:b] for 0 <= a: the elements a..b-1, clamped to the sequence.
Slice(s, a, b) == SubSeq(s, a + 1, Min(b, Len(s)))

\* None, and a value that is present
None == <<>>
Some(v) == <<v>>

(***************************************************************************)
(* Each function is run on its own: while one runs, the others are idle.   *)
(***************************************************************************)
ChkIdle ==
    /\ ckData = <<>> /\ ckExpected = <<>> /\ total = {}
    /\ ckPos = 0 /\ ckPc = "idle" /\ ckResult = <<>>

RleIdle ==
    /\ data = <<>> /\ body = <<>> /\ i = 0 /\ out = <<>>
    /\ reads = {} /\ unit = "none" /\ rlePc = "idle"

DecIdle == decData = <<>> /\ decOut = <<>> /\ decI = 0 /\ decPc = "idle"

ParseIdle ==
    /\ decrypted = <<>> /\ files = <<>> /\ names = <<>> /\ comps = <<>> /\ wins = <<>>
    /\ rows = <<>> /\ preads = {} /\ parsePc = "idle"

RunIdle ==
    /\ raw = <<>> /\ mode = "idle" /\ keep = FALSE /\ merge = FALSE /\ pc = "idle"
    /\ err = None /\ stages = <<>>
    /\ decompr_raw = <<>> /\ decryptedBytes = <<>> /\ parsedRows = <<>> /\ existing_map = <<>>
    /\ fsCsv = None /\ fsDecompressed = None /\ fsDecrypted = None
    /\ fsScore = None /\ fsScoreBefore = None /\ writes = {}

MoneyIdle == mField = <<>> /\ mPc = "idle" /\ mOut = <<>>

BestIdle == bmRows = <<>> /\ bmPc = "idle" /\ bmOut = <<>>

CodecIdle ==
    /\ cMap = <<>> /\ cOther = <<>> /\ cFile = <<>> /\ cFileOther = <<>>
    /\ cLoaded = <<>> /\ cPc = "idle"

BuildIdle ==
    /\ bFile = <<>> /\ bBefore = <<>> /\ bRows = <<>> /\ bMerge = FALSE
    /\ bHanded = <<>> /\ bExc = "none" /\ bPc = "idle" /\ bN = 0
    /\ bFirst = <<>> /\ bHist = <<>>

\* The decoder's functions are idle
CoreIdle == ChkIdle /\ RleIdle /\ DecIdle /\ ParseIdle /\ RunIdle

ParIdle == pOp = <<>> /\ pFs = <<>> /\ pLog = {}

RowsIdle == rbRows = <<>> /\ rbFile = <<>> /\ rbExc = "none" /\ rbPc = "idle"

RdIdle == rdData = <<>> /\ rdOut = <<>> /\ rdPc = "idle"

MoreIdle == ParIdle /\ RowsIdle /\ RdIdle

\* The score builder's functions are idle
ScoreIdle == MoneyIdle /\ BestIdle /\ CodecIdle /\ BuildIdle

(***************************************************************************)
(* Python integers as bit sets: a non-negative int is the set of the       *)
(* positions of its 1 bits (position 0 is the least significant), so 0 is  *)
(* {} and 0xFF is 0..7.                                                    *)
(***************************************************************************)
B(x, k) == IF k \in x THEN 1 ELSE 0

\* The int n (0 <= n < 2^w, w <= 31) as a bit set.
BitsOf(n, w) == {k \in 0..(w - 1) : (n \div (2 ^ k)) % 2 = 1}

\* The value of the 8 bits of x from position b on (b = 0: the low byte).
ByteVal(x, b) ==
    ((B(x, b) + 2 * B(x, b + 1)) + (4 * B(x, b + 2) + 8 * B(x, b + 3)))
    + ((16 * B(x, b + 4) + 32 * B(x, b + 5)) + (64 * B(x, b + 6) + 128 * B(x, b + 7)))
\* The value of the 16 bits of x from position b on.
Limb(x, b) == ByteVal(x, b) + 256 * ByteVal(x, b + 8)

\* x << n
Shl(x, n) == {k + n : k \in x}
\* x >> n
Shr(x, n) == {k - n : k \in {j \in x : j >= n}}
\* x | y
BitOr(x, y) == x \cup y
\* x & y
BitAnd(x, y) == x \cap y

\* x + y for x, y < 2^48, added 16 bits at a time with the carries.
BitAdd(x, y) ==
    LET s0 == Limb(x, 0) + Limb(y, 0)
        s1 == Limb(x, 16) + Limb(y, 16) + (s0 \div 65536)
        s2 == Limb(x, 32) + Limb(y, 32) + (s1 \div 65536)
    IN BitsOf(s0 % 65536, 16)
       \cup Shl(BitsOf(s1 % 65536, 16), 16)
       \cup Shl(BitsOf(s2, 17), 32)
\* (x - y) & 0xFFFFFFFF for x, y < 2^32: Python's & reads a negative
\* difference in two's complement, so the result is the difference modulo 2^32.
BitSubMask32(x, y) ==
    LET lo == Limb(x, 0) - Limb(y, 0)
        hi == Limb(x, 16) - Limb(y, 16) - (IF lo < 0 THEN 1 ELSE 0)
    IN BitsOf((lo + 65536) % 65536, 16) \cup Shl(BitsOf((hi + 131072) % 65536, 16), 16)

\* struct.unpack('<I', chunk)[0] for a 4-byte chunk.
UnpackDwordLE(chunk) ==
    (BitsOf(chunk[1], 8) \cup Shl(BitsOf(chunk[2], 8), 8))
    \cup (Shl(BitsOf(chunk[3], 8), 16) \cup Shl(BitsOf(chunk[4], 8), 24))
\* struct.pack('<I', x) for 0 <= x < 2^32.
PackDwordLE(x) == <<ByteVal(x, 0), ByteVal(x, 8), ByteVal(x, 16), ByteVal(x, 24)>>

(***************************************************************************)
(* core.py constants.                                                      *)
(***************************************************************************)
MAGIC_ADD == 960051513
MASK32 == 0..31
CHECKSUM_FINAL_ADD == 120001
FILE_NAME_TABLE_OFFSET == 0
FILE_NAME_ENTRY_SIZE == 16
SCENARIO_NAME_TABLE_OFFSET == 2048
SCENARIO_NAME_ENTRY_SIZE == 64
COMPANY_VALUE_TABLE_OFFSET == 10240
WINNER_TABLE_OFFSET == 10752
WINNER_ENTRY_SIZE == 32
MAX_ENTRIES == 128

(***************************************************************************)
(* rotl32 (core.py:46-56): ((x << n) | (x >> (32 - n))) & MASK32           *)
(***************************************************************************)
rotl32(x, n) == BitAnd(BitOr(Shl(x, n), Shr(x, 32 - n)), MASK32)

(***************************************************************************)
(* verify_checksum (core.py:129-150).                                      *)
(***************************************************************************)
\* One iteration of the loop at core.py:144-148.
ChecksumStep_Carry(tot, byte) ==
    rotl32(BitAnd(BitAdd(tot, BitsOf(byte, 8)), MASK32), 3)

ChecksumStep(tot, byte) ==
    LET low == BitAnd(BitAdd(BitAnd(tot, 0..7), BitsOf(byte, 8)), 0..7)
    IN rotl32(BitAnd(BitOr(BitAnd(tot, 8..31), low), MASK32), 3)

\* core.py:149
ChecksumFinal(tot) == BitAnd(BitAdd(tot, BitsOf(CHECKSUM_FINAL_ADD, 31)), MASK32)

\* The loop at core.py:143-148 from index k on.
RECURSIVE ChecksumFold(_, _, _)
ChecksumFold(d, k, tot) ==
    IF Now(tot) /\ k >= Len(d) THEN tot
    ELSE ChecksumFold(d, k + 1, ChecksumStep(tot, d[k + 1]))

\* verify_checksum(data, expected_checksum) -> (is_valid, calculated_checksum)
verify_checksum(d, expected) ==
    LET tot == ChecksumFold(d, 0, {})
        calculated_checksum == ChecksumFinal(tot)
    IN IF Now(tot) /\ Now(calculated_checksum)
       THEN <<calculated_checksum = expected, calculated_checksum>>
       ELSE <<>>

\* The checksum field of an archive whose body is d: struct.pack('<I', calculated).
ChecksumBytes(d) ==
    LET r == verify_checksum(d, {}) IN IF Now(r) THEN PackDwordLE(r[2]) ELSE <<>>

(***************************************************************************)
(* verify_checksum, one loop iteration at a time.                          *)
(***************************************************************************)
ChkBytes == {0, 1, 128, 255}
ChkExpected(d) == {ChecksumBytes(d), <<0, 0, 0, 0>>, <<255, 255, 255, 255>>}

InitChk ==
    /\ ckData \in SeqsUpTo(ChkBytes, MaxChkLen)
    /\ ckExpected \in ChkExpected(ckData)
    /\ total = {}
    /\ ckPos = 0
    /\ ckPc = "loop"
    /\ ckResult = <<>>
    \* the other components are not running
    /\ RleIdle
    /\ DecIdle
    /\ ParseIdle
    /\ RunIdle
    /\ ScoreIdle
    /\ MoreIdle

\* core.py:144-148
ChkByte ==
    /\ ckPc = "loop"
    /\ ckPos < Len(ckData)
    /\ total' = ChecksumStep(total, ckData[ckPos + 1])
    /\ ckPos' = ckPos + 1
    /\ UNCHANGED <<ckData, ckExpected, ckPc, ckResult>>
    /\ UNCHANGED notChk

\* core.py:149-150
ChkReturn ==
    /\ ckPc = "loop"
    /\ ckPos >= Len(ckData)
    /\ ckResult' = <<ChecksumFinal(total) = UnpackDwordLE(ckExpected),
                     ChecksumFinal(total)>>
    /\ ckPc' = "done"
    /\ UNCHANGED <<ckData, ckExpected, total, ckPos>>
    /\ UNCHANGED notChk

(***************************************************************************)
(* rle_decompress (core.py:59-100).                                        *)
(***************************************************************************)
\* body[k], or -1 where Python raises IndexError.
ByteAt(s, k) == IF k \in 0..(Len(s) - 1) THEN s[k + 1] ELSE -1

\* core.py:82
Signed8(b) == IF b < 128 THEN b ELSE b - 256

Repeat(val, cnt) == Tup([k \in 1..cnt |-> val], cnt)

\* One iteration of the loop at core.py:78-99 with the read index at i0:
\* the index after it, the bytes appended, whether it ended in break, the
\* indices of body it read, and the kind of unit it decoded.
RleIter_NoValueGuard(b, i0) ==
    LET i1 == i0 + 1
        sb == Signed8(ByteAt(b, i0))
    IN IF sb >= 0
       THEN IF i1 + (sb + 1) > Len(b)
            THEN [i |-> i1, app |-> Slice(b, i1, Len(b)), brk |-> TRUE,
                  rd |-> {i0} \cup (i1..(Len(b) - 1)), kind |-> "clamped"]
            ELSE [i |-> i1 + (sb + 1), app |-> Slice(b, i1, i1 + (sb + 1)), brk |-> FALSE,
                  rd |-> {i0} \cup (i1..(i1 + sb)), kind |-> "literal"]
       ELSE [i |-> i1 + 1, app |-> Repeat(ByteAt(b, i1), 1 - sb), brk |-> FALSE,
             rd |-> {i0, i1}, kind |-> "repeat"]

RleIter_RepeatMinusSb(b, i0) ==
    LET i1 == i0 + 1
        sb == Signed8(ByteAt(b, i0))
    IN IF sb >= 0
       THEN IF i1 + (sb + 1) > Len(b)
            THEN [i |-> i1, app |-> Slice(b, i1, Len(b)), brk |-> TRUE,
                  rd |-> {i0} \cup (i1..(Len(b) - 1)), kind |-> "clamped"]
            ELSE [i |-> i1 + (sb + 1), app |-> Slice(b, i1, i1 + (sb + 1)), brk |-> FALSE,
                  rd |-> {i0} \cup (i1..(i1 + sb)), kind |-> "literal"]
       ELSE IF i1 >= Len(b)
            THEN [i |-> i1, app |-> <<>>, brk |-> TRUE, rd |-> {i0}, kind |-> "missing"]
            ELSE [i |-> i1 + 1, app |-> Repeat(ByteAt(b, i1), 0 - sb), brk |-> FALSE,
                  rd |-> {i0, i1}, kind |-> "repeat"]

RleIter_ClampDrops(b, i0) ==
    LET i1 == i0 + 1
        sb == Signed8(ByteAt(b, i0))
    IN IF sb >= 0
       THEN IF i1 + (sb + 1) > Len(b)
            THEN [i |-> i1, app |-> <<>>, brk |-> TRUE,
                  rd |-> {i0}, kind |-> "clamped"]
            ELSE [i |-> i1 + (sb + 1), app |-> Slice(b, i1, i1 + (sb + 1)), brk |-> FALSE,
                  rd |-> {i0} \cup (i1..(i1 + sb)), kind |-> "literal"]
       ELSE IF i1 >= Len(b)
            THEN [i |-> i1, app |-> <<>>, brk |-> TRUE, rd |-> {i0}, kind |-> "missing"]
            ELSE [i |-> i1 + 1, app |-> Repeat(ByteAt(b, i1), 1 - sb), brk |-> FALSE,
                  rd |-> {i0, i1}, kind |-> "repeat"]

RleIter(b, i0) ==
    LET i1 == i0 + 1
        sb == Signed8(ByteAt(b, i0))
    IN IF sb >= 0
       THEN \* core.py:85-92: cnt = sb + 1, end = i + cnt
            IF i1 + (sb + 1) > Len(b)
            THEN [i |-> i1, app |-> Slice(b, i1, Len(b)), brk |-> TRUE,
                  rd |-> {i0} \cup (i1..(Len(b) - 1)), kind |-> "clamped"]
            ELSE [i |-> i1 + (sb + 1), app |-> Slice(b, i1, i1 + (sb + 1)), brk |-> FALSE,
                  rd |-> {i0} \cup (i1..(i1 + sb)), kind |-> "literal"]
       ELSE \* core.py:95-99: cnt = 1 - sb
            IF i1 >= Len(b)
            THEN [i |-> i1, app |-> <<>>, brk |-> TRUE, rd |-> {i0}, kind |-> "missing"]
            ELSE [i |-> i1 + 1, app |-> Repeat(ByteAt(b, i1), 1 - sb), brk |-> FALSE,
                  rd |-> {i0, i1}, kind |-> "repeat"]

\* core.py:75: body = data[:-4]
BodyOf(d) == SubSeq(d, 1, Len(d) - 4)

RECURSIVE RleLoop(_, _, _)
RleLoop(b, i0, o) ==
    IF Now(o) /\ i0 >= Len(b) THEN o
    ELSE LET it == RleIter(b, i0)
         IN IF it.brk THEN o \o it.app ELSE RleLoop(b, it.i, o \o it.app)

rle_decompress(d) == IF Len(d) < 4 THEN <<>> ELSE RleLoop(BodyOf(d), 0, <<>>)

(***************************************************************************)
(* rle_decompress, one loop iteration at a time.                           *)
(***************************************************************************)
RleBytes == {0, 1, 127, 128, 255}
\* The 4 trailing bytes rle_decompress drops (the checksum field).
RleTails == {<<0, 0, 0, 0>>, <<255, 1, 128, 127>>}
\* The example of scripts/diagnose_rle_decrypt.py:36-38 ("Good job!").
RleDocExample == <<0, 71, 255, 111, 5, 100, 32, 106, 111, 98, 33, 0, 0, 0, 0>>
\* A literal unit of the greatest length (control byte 127: 128 bytes), then a
\* run of the greatest length (control byte 128: 129 copies).
RleLongest == <<127>> \o Tup([k \in 1..128 |-> k], 128) \o <<128, 7>> \o <<9, 9, 9, 9>>

RleInputs ==
    SeqsUpTo(RleBytes, 3)
    \cup {b \o t : b \in SeqsUpTo(RleBytes, MaxBodyLen), t \in RleTails}
    \cup {RleDocExample, RleLongest}

InitRle ==
    /\ data \in RleInputs
    /\ body = <<>>
    /\ i = 0
    /\ out = <<>>
    /\ reads = {}
    /\ unit = "none"
    /\ rlePc = "call"
    \* the other components are not running
    /\ ChkIdle
    /\ DecIdle
    /\ ParseIdle
    /\ RunIdle
    /\ ScoreIdle
    /\ MoreIdle

\* core.py:73-74
RleTooShort ==
    /\ rlePc = "call"
    /\ Len(data) < 4
    /\ out' = <<>>
    /\ rlePc' = "done"
    /\ UNCHANGED <<data, body, i, reads, unit>>
    /\ UNCHANGED notRle

\* core.py:75-77
RleBegin ==
    /\ rlePc = "call"
    /\ Len(data) >= 4
    /\ body' = BodyOf(data)
    /\ out' = <<>>
    /\ i' = 0
    /\ rlePc' = "loop"
    /\ UNCHANGED <<data, reads, unit>>
    /\ UNCHANGED notRle

\* core.py:78-99, one pass through the loop body
RleUnit ==
    /\ rlePc = "loop"
    /\ i < Len(body)
    /\ LET it == RleIter(body, i)
       IN /\ i' = it.i
          /\ out' = out \o it.app
          /\ reads' = reads \cup it.rd
          /\ unit' = it.kind
          /\ rlePc' = IF it.brk THEN "done" ELSE "loop"
    /\ UNCHANGED <<data, body>>
    /\ UNCHANGED notRle

\* core.py:78 and 100: the loop condition fails, return bytes(out)
RleExit ==
    /\ rlePc = "loop"
    /\ i >= Len(body)
    /\ rlePc' = "done"
    /\ UNCHANGED <<data, body, i, out, reads, unit>>
    /\ UNCHANGED notRle

(***************************************************************************)
(* decrypt_dwords_le (core.py:103-126).                                    *)
(***************************************************************************)
\* core.py:122-125 on one 4-byte chunk
DecryptWord_Rot3(chunk) ==
    PackDwordLE(BitSubMask32(rotl32(UnpackDwordLE(chunk), 3), BitsOf(MAGIC_ADD, 31)))

DecryptWord(chunk) ==
    PackDwordLE(BitSubMask32(rotl32(UnpackDwordLE(chunk), 5), BitsOf(MAGIC_ADD, 31)))

\* One iteration of the loop at core.py:117-125 with the loop index at i0: the
\* bytes appended and whether it ended in break.
DecIter_DropTail(d, i0) ==
    IF Len(Slice(d, i0, i0 + 4)) < 4
    THEN [app |-> <<>>, brk |-> TRUE]
    ELSE [app |-> DecryptWord(Slice(d, i0, i0 + 4)), brk |-> FALSE]

DecIter(d, i0) ==
    IF Len(Slice(d, i0, i0 + 4)) < 4
    THEN [app |-> Slice(d, i0, i0 + 4), brk |-> TRUE]
    ELSE [app |-> DecryptWord(Slice(d, i0, i0 + 4)), brk |-> FALSE]

RECURSIVE DecLoop(_, _, _)
DecLoop(d, i0, o) ==
    IF Now(o) /\ i0 >= Len(d) THEN o
    ELSE LET it == DecIter(d, i0)
         IN IF it.brk THEN o \o it.app ELSE DecLoop(d, i0 + 4, o \o it.app)

decrypt_dwords_le(d) == DecLoop(d, 0, <<>>)

\* rotr32 (scripts/decrypt_css0.py:11-12)
rotr32(x, n) == BitAnd(BitOr(Shr(x, n), BitAnd(Shl(x, 32 - n), MASK32)), MASK32)

(***************************************************************************)
(* decrypt_dwords_le, one loop iteration at a time.                        *)
(***************************************************************************)
DecBytes == {0, 57, 255}

InitDec ==
    /\ decData \in SeqsUpTo(DecBytes, MaxDecLen)
    /\ decOut = <<>>
    /\ decI = 0
    /\ decPc = "loop"
    \* the other components are not running
    /\ ChkIdle
    /\ RleIdle
    /\ ParseIdle
    /\ RunIdle
    /\ ScoreIdle
    /\ MoreIdle

\* core.py:117-125, one pass through the loop body
DecChunk ==
    /\ decPc = "loop"
    /\ decI < Len(decData)
    /\ LET it == DecIter(decData, decI)
       IN /\ decOut' = decOut \o it.app
          /\ decI' = IF it.brk THEN decI ELSE decI + 4
          /\ decPc' = IF it.brk THEN "done" ELSE "loop"
    /\ UNCHANGED decData
    /\ UNCHANGED notDec

\* core.py:117 and 126: the range is exhausted, return bytes(out)
DecExit ==
    /\ decPc = "loop"
    /\ decI >= Len(decData)
    /\ decPc' = "done"
    /\ UNCHANGED <<decData, decOut, decI>>
    /\ UNCHANGED notDec

(***************************************************************************)
(* Table parsing (core.py:153-259).  A str decoded from latin1 is the      *)
(* sequence of its code points, which are the byte values.  None is the    *)
(* empty tuple and a present company value v the one-tuple <<v>>.          *)
(***************************************************************************)
\* block.split(b'\x00', 1)[0].decode('latin1') (core.py:171)
CStr(block) ==
    LET z == {k \in 1..Len(block) : block[k] = 0}
    IN IF z = {} THEN block
       ELSE SubSeq(block, 1, (CHOOSE k \in z : \A j \in z : k <= j) - 1)

\* The iterations of the loop at core.py:166-172 that get past the break: start
\* grows with i, so they are the i whose start lies inside the buffer.
FixedIters(d, offset, count, size) ==
    {k \in 0..(count - 1) : ~(offset + (k * size) >= Len(d))}

\* read_fixed_strings (core.py:153-173)
read_fixed_strings(d, offset, count, size) ==
    LET n == Cardinality(FixedIters(d, offset, count, size))
    IN Tup([k \in 1..n |->
              CStr(Slice(d, offset + ((k - 1) * size), offset + ((k - 1) * size) + size))], n)

\* The byte ranges the slices at core.py:170 take: [lo, hi) of a block of size.
fixed_string_reads(d, offset, count, size) ==
    {[lo |-> offset + (k * size), hi |-> Min(offset + (k * size) + size, Len(d)), size |-> size] :
        k \in FixedIters(d, offset, count, size)}

\* The iterations of the loop at core.py:199-203 that get past the break.
DwordIters(d, offset, count) ==
    {k \in 0..(count - 1) : ~(offset + (k * 4) + 4 > Len(d))}

\* struct.unpack_from('<i', data, off)[0] (core.py:203)
UnpackSignedLE(d, off) ==
    (d[off + 1] + (256 * d[off + 2])) + ((65536 * d[off + 3])
        + (16777216 * (IF d[off + 4] >= 128 THEN d[off + 4] - 256 ELSE d[off + 4])))

\* read_dwords_le_signed (core.py:196-204)
read_dwords_le_signed(d, offset, count) ==
    LET n == Cardinality(DwordIters(d, offset, count))
    IN Tup([k \in 1..n |-> UnpackSignedLE(d, offset + ((k - 1) * 4))], n)

\* The byte ranges unpack_from reads at core.py:203.
dword_reads(d, offset, count) ==
    {[lo |-> offset + (k * 4), hi |-> offset + (k * 4) + 4, size |-> 4] :
        k \in DwordIters(d, offset, count)}

\* core.py:228-229
max_files(tot) ==
    Min(Max(0, (tot - FILE_NAME_TABLE_OFFSET) \div FILE_NAME_ENTRY_SIZE), MAX_ENTRIES)

\* core.py:232-234
max_names_NoCap(tot) ==
    IF tot > SCENARIO_NAME_TABLE_OFFSET
    THEN (tot - SCENARIO_NAME_TABLE_OFFSET) \div SCENARIO_NAME_ENTRY_SIZE
    ELSE 0

max_names(tot) ==
    IF tot > SCENARIO_NAME_TABLE_OFFSET
    THEN Min(MAX_ENTRIES, (tot - SCENARIO_NAME_TABLE_OFFSET) \div SCENARIO_NAME_ENTRY_SIZE)
    ELSE 0

\* the count of 8-byte records that fit
max_comp_EightBytes(tot) == Min(MAX_ENTRIES, (tot - COMPANY_VALUE_TABLE_OFFSET) \div 8)

\* core.py:239
max_comp(tot) == Min(MAX_ENTRIES, (tot - COMPANY_VALUE_TABLE_OFFSET) \div 4)

\* core.py:244
max_w_RoundUp(tot) ==
    Min(MAX_ENTRIES, ((tot - WINNER_TABLE_OFFSET) + (WINNER_ENTRY_SIZE - 1)) \div WINNER_ENTRY_SIZE)

max_w(tot) == Min(MAX_ENTRIES, (tot - WINNER_TABLE_OFFSET) \div WINNER_ENTRY_SIZE)

\* core.py:230
ParseFilesOf(d) ==
    read_fixed_strings(d, FILE_NAME_TABLE_OFFSET, max_files(Len(d)), FILE_NAME_ENTRY_SIZE)

\* core.py:235
ParseNamesOf(d) ==
    read_fixed_strings(d, SCENARIO_NAME_TABLE_OFFSET, max_names(Len(d)), SCENARIO_NAME_ENTRY_SIZE)

\* core.py:237-240
ParseCompsOf(d) ==
    IF Len(d) > COMPANY_VALUE_TABLE_OFFSET
    THEN read_dwords_le_signed(d, COMPANY_VALUE_TABLE_OFFSET, max_comp(Len(d)))
    ELSE <<>>

\* core.py:242-245
ParseWinsOf(d) ==
    IF Len(d) > WINNER_TABLE_OFFSET
    THEN read_fixed_strings(d, WINNER_TABLE_OFFSET, max_w(Len(d)), WINNER_ENTRY_SIZE)
    ELSE <<>>

\* core.py:250-257: the row of index k
RowAt_ZeroForMissing(k, fs, ns, cs, ws) ==
    [index |-> k,
     filename |-> IF k < Len(fs) THEN fs[k + 1] ELSE <<>>,
     name |-> IF k < Len(ns) THEN ns[k + 1] ELSE <<>>,
     company_value |-> IF k < Len(cs) THEN Some(cs[k + 1]) ELSE Some(0),
     winner |-> IF k < Len(ws) THEN ws[k + 1] ELSE <<>>]

RowAt(k, fs, ns, cs, ws) ==
    [index |-> k,
     filename |-> IF k < Len(fs) THEN fs[k + 1] ELSE <<>>,
     name |-> IF k < Len(ns) THEN ns[k + 1] ELSE <<>>,
     company_value |-> IF k < Len(cs) THEN Some(cs[k + 1]) ELSE None,
     winner |-> IF k < Len(ws) THEN ws[k + 1] ELSE <<>>]

\* core.py:247-259
BuildRows(fs, ns, cs, ws) ==
    LET count == Max(Max(Len(fs), Len(ns)), Max(Len(cs), Len(ws)))
    IN Tup([k \in 1..count |-> RowAt(k - 1, fs, ns, cs, ws)], count)

\* parse_tables (core.py:207-259)
parse_tables(d) == BuildRows(ParseFilesOf(d), ParseNamesOf(d), ParseCompsOf(d), ParseWinsOf(d))

(***************************************************************************)
(* parse_tables, one table at a time.                                      *)
(***************************************************************************)
\* Where a table starts or is full; the four tables are contiguous.
ParseEdges ==
    {FILE_NAME_TABLE_OFFSET, SCENARIO_NAME_TABLE_OFFSET, COMPANY_VALUE_TABLE_OFFSET,
     WINNER_TABLE_OFFSET, WINNER_TABLE_OFFSET + (MAX_ENTRIES * WINNER_ENTRY_SIZE)}

ParseSizes == {4, FILE_NAME_ENTRY_SIZE, WINNER_ENTRY_SIZE, SCENARIO_NAME_ENTRY_SIZE}

\* Buffer lengths: an edge, plus a few whole records, give or take one byte.
ParseLens ==
    {n \in {e + (k * u) + r : e \in ParseEdges, k \in 0..MaxExtraRecs, u \in ParseSizes, r \in {-1, 0, 1}} :
        n >= 0}

\* Buffer contents: all zero, all 0xFF, and text broken by NUL bytes.
ParsePatterns == {"zero", "ones", "text"}

PatByte(p, k) ==
    CASE p = "zero" -> 0
      [] p = "ones" -> 255
      [] OTHER -> IF k % 5 = 4 THEN 0 ELSE 65 + (k % 3)

MkBuf(p, n) == Tup([k \in 1..n |-> PatByte(p, k - 1)], n)

InitParse ==
    /\ decrypted \in {MkBuf(p, n) : p \in ParsePatterns, n \in ParseLens}
    /\ files = <<>> /\ names = <<>> /\ comps = <<>> /\ wins = <<>>
    /\ rows = <<>>
    /\ preads = {}
    /\ parsePc = "files"
    \* the other components are not running
    /\ ChkIdle
    /\ RleIdle
    /\ DecIdle
    /\ RunIdle
    /\ ScoreIdle
    /\ MoreIdle

\* core.py:226-230
ParseFiles ==
    /\ parsePc = "files"
    /\ files' = ParseFilesOf(decrypted)
    /\ preads' = preads \cup fixed_string_reads(decrypted, FILE_NAME_TABLE_OFFSET,
                                                max_files(Len(decrypted)), FILE_NAME_ENTRY_SIZE)
    /\ parsePc' = "names"
    /\ UNCHANGED <<decrypted, names, comps, wins, rows>>
    /\ UNCHANGED notParse

\* core.py:232-235
ParseNames ==
    /\ parsePc = "names"
    /\ names' = ParseNamesOf(decrypted)
    /\ preads' = preads \cup fixed_string_reads(decrypted, SCENARIO_NAME_TABLE_OFFSET,
                                                max_names(Len(decrypted)), SCENARIO_NAME_ENTRY_SIZE)
    /\ parsePc' = "comps"
    /\ UNCHANGED <<decrypted, files, comps, wins, rows>>
    /\ UNCHANGED notParse

\* core.py:237-240
ParseComps ==
    /\ parsePc = "comps"
    /\ comps' = ParseCompsOf(decrypted)
    /\ preads' = preads \cup
          (IF Len(decrypted) > COMPANY_VALUE_TABLE_OFFSET
           THEN dword_reads(decrypted, COMPANY_VALUE_TABLE_OFFSET, max_comp(Len(decrypted)))
           ELSE {})
    /\ parsePc' = "wins"
    /\ UNCHANGED <<decrypted, files, names, wins, rows>>
    /\ UNCHANGED notParse

\* core.py:242-245
ParseWins ==
    /\ parsePc = "wins"
    /\ wins' = ParseWinsOf(decrypted)
    /\ preads' = preads \cup
          (IF Len(decrypted) > WINNER_TABLE_OFFSET
           THEN fixed_string_reads(decrypted, WINNER_TABLE_OFFSET,
                                   max_w(Len(decrypted)), WINNER_ENTRY_SIZE)
           ELSE {})
    /\ parsePc' = "rows"
    /\ UNCHANGED <<decrypted, files, names, comps, rows>>
    /\ UNCHANGED notParse

\* core.py:247-259
ParseRows ==
    /\ parsePc = "rows"
    /\ rows' = BuildRows(files, names, comps, wins)
    /\ parsePc' = "done"
    /\ UNCHANGED <<decrypted, files, names, comps, wins, preads>>
    /\ UNCHANGED notParse

(***************************************************************************)
(* Text helpers: str(int), int(float(text)), str.strip, str.lower and      *)
(* pathlib's Path.name on strings of code points below 256.                *)
(***************************************************************************)
SetMin(S) == CHOOSE x \in S : \A y \in S : x <= y
SetMax(S) == CHOOSE x \in S : \A y \in S : x >= y

\* the decimal digits of n >= 0
RECURSIVE DecNat(_)
DecNat(n) == IF n < 10 THEN <<48 + n>> ELSE DecNat(n \div 10) \o <<48 + (n % 10)>>

\* the decimal digits of -n for n < 0
RECURSIVE DecNeg(_)
DecNeg(n) ==
    LET d == (10 - (n % 10)) % 10
        q == (n + d) \div 10
    IN IF q = 0 THEN <<48 + d>> ELSE DecNeg(q) \o <<48 + d>>

\* str(n)
Str(n) == IF n < 0 THEN <<45>> \o DecNeg(n) ELSE DecNat(n)

\* the code points str.isspace accepts
Whitespace == {9, 10, 11, 12, 13, 28, 29, 30, 31, 32, 133, 160}

\* str.strip()
strip(t) ==
    LET ns == {k \in 1..Len(t) : t[k] \notin Whitespace}
    IN IF ns = {} THEN <<>> ELSE SubSeq(t, SetMin(ns), SetMax(ns))

\* str.lower() on one code point
LowerChar(c) ==
    IF (c >= 65 /\ c <= 90) \/ (c >= 192 /\ c <= 222 /\ c # 215) THEN c + 32 ELSE c

\* str.lower()
lower(t) == Tup([k \in 1..Len(t) |-> LowerChar(t[k])], Len(t))

\* Path(t).name: the last component between slashes that is neither empty
\* nor ".", or "" when there is none
PathName(t) ==
    LET starts == {a \in 1..Len(t) : t[a] # 47 /\ (a = 1 \/ t[a - 1] = 47)}
        EndOf(a) == SetMin({b \in a..Len(t) : b = Len(t) \/ t[b + 1] = 47})
        comps0 == {a \in starts : SubSeq(t, a, EndOf(a)) # <<46>>}
    IN IF comps0 = {} THEN <<>> ELSE SubSeq(t, SetMax(comps0), EndOf(SetMax(comps0)))

\* Python's order on str: by code point, a proper prefix first
StrLess(x, y) ==
    LET n == Min(Len(x), Len(y))
        diff == {k \in 1..n : x[k] # y[k]}
    IN IF diff = {} THEN Len(x) < Len(y) ELSE x[SetMin(diff)] < y[SetMin(diff)]

(***************************************************************************)
(* core.py write_csv (262-272): the file as its field names and, per row,  *)
(* the text of each cell.                                                  *)
(***************************************************************************)
CsvLine(r) ==
    <<Str(r.index), r.filename, r.name,
      IF r.company_value = None THEN <<>> ELSE Str(r.company_value[1]),
      r.winner>>

write_csv(rs) ==
    [fieldnames |-> <<"index", "filename", "name", "company_value", "winner">>,
     lines |-> Tup([k \in 1..Len(rs) |-> CsvLine(rs[k])], Len(rs))]

(***************************************************************************)
(* Python's int of any size: a sign and the bit set of the magnitude.      *)
(* Zero has no sign.                                                       *)
(***************************************************************************)
PyInt(neg, mag) == [neg |-> neg /\ mag # {}, mag |-> mag]

\* x < y on magnitudes: the highest bit they differ in is y's
MagLess(x, y) == x # y /\ SetMax((x \ y) \cup (y \ x)) \in y

\* a < b on ints
IntLess(a, b) ==
    IF a.neg # b.neg THEN a.neg
    ELSE IF a.neg THEN MagLess(b.mag, a.mag) ELSE MagLess(a.mag, b.mag)

\* x + 1: the lowest 0 bit is set and the 1 bits below it are cleared
MagInc(x) ==
    LET k == SetMin({j \in 0..Cardinality(x) : j \notin x})
    IN {j \in x : j > k} \cup {k}

\* x - 1 for x > 0: the lowest 1 bit is cleared and the bits below it are set
MagDec(x) == (x \ {SetMin(x)}) \cup (0..(SetMin(x) - 1))

\* x + y, added 16 bits at a time from position b on with carry c
RECURSIVE MagAddFrom(_, _, _, _)
MagAddFrom(x, y, b, c) ==
    IF c = 0 /\ \A k \in x \cup y : k < b THEN {}
    ELSE LET s == Limb(x, b) + Limb(y, b) + c
         IN Shl(BitsOf(s % 65536, 16), b) \cup MagAddFrom(x, y, b + 16, s \div 65536)

MagAdd(x, y) == MagAddFrom(x, y, 0, 0)

\* x - y for x >= y, 16 bits at a time from position b on with borrow c
RECURSIVE MagSubFrom(_, _, _, _)
MagSubFrom(x, y, b, c) ==
    IF \A k \in x : k < b THEN {}
    ELSE LET d == Limb(x, b) - Limb(y, b) - c
         IN Shl(BitsOf((d + 65536) % 65536, 16), b)
            \cup MagSubFrom(x, y, b + 16, IF d < 0 THEN 1 ELSE 0)

MagSub(x, y) == MagSubFrom(x, y, 0, 0)

\* the value of the decimal digits ds[a+1..b] appended to the digits of acc
RECURSIVE MagOfDigits(_, _, _, _)
MagOfDigits(ds, a, b, acc) ==
    IF Now(acc) /\ b <= a THEN acc
    ELSE IF b = a + 1
         THEN MagAdd(MagAdd(Shl(acc, 3), Shl(acc, 1)), BitsOf(ds[b] - 48, 4))
         ELSE MagOfDigits(ds, (a + b) \div 2, b, MagOfDigits(ds, a, (a + b) \div 2, acc))

\* 2^m modulo 10
Pow2Mod10(m) == IF m = 0 THEN 1 ELSE <<2, 4, 8, 6>>[((m - 1) % 4) + 1]

\* (x >> k) modulo 10
ShrMod10(x, k) ==
    (((1 * Cardinality({j \in x : j >= k /\ Pow2Mod10(j - k) = 1}))
      + (2 * Cardinality({j \in x : j >= k /\ Pow2Mod10(j - k) = 2})))
     + ((4 * Cardinality({j \in x : j >= k /\ Pow2Mod10(j - k) = 4}))
        + ((6 * Cardinality({j \in x : j >= k /\ Pow2Mod10(j - k) = 6}))
           + (8 * Cardinality({j \in x : j >= k /\ Pow2Mod10(j - k) = 8}))))) % 10

\* x // 10, by long division from the highest bit
MagDiv10(x) == {k \in 0..SetMax(x \cup {0}) : (2 * ShrMod10(x, k + 1)) + B(x, k) >= 10}

\* the decimal digits of the magnitude x > 0
RECURSIVE MagDigits(_)
MagDigits(x) ==
    IF x = {} THEN <<>> ELSE Append(MagDigits(MagDiv10(x)), 48 + ShrMod10(x, 0))

\* str(v) for an int v
StrInt(v) ==
    IF v.mag = {} THEN <<48>>
    ELSE IF v.neg THEN <<45>> \o MagDigits(v.mag) ELSE MagDigits(v.mag)

(***************************************************************************)
(* int(float(t)) (highscores.py:47).  float() reads a decimal or inf or    *)
(* nan, and rounds to 53 bits, ties to even; int() truncates, and raises   *)
(* OverflowError on an infinity and ValueError on a nan.                   *)
(***************************************************************************)
IsDigits(s) == \A k \in 1..Len(s) : s[k] \in 48..57

\* a digit string may hold single underscores between digits
UnderscoresOk(s) ==
    \A k \in 1..Len(s) :
        s[k] = 95 => (k > 1 /\ k < Len(s) /\ s[k - 1] \in 48..57 /\ s[k + 1] \in 48..57)

RECURSIVE DropUnderscores(_)
DropUnderscores(s) ==
    IF s = <<>> THEN <<>>
    ELSE IF s[1] = 95 THEN DropUnderscores(Tail(s)) ELSE <<s[1]>> \o DropUnderscores(Tail(s))

StripZeros(ds) ==
    LET nz == {k \in 1..Len(ds) : ds[k] # 48}
    IN IF nz = {} THEN <<>> ELSE SubSeq(ds, SetMin(nz), Len(ds))

Zeros(n) == Tup([k \in 1..n |-> 48], n)

\* the value of an exponent's digits; beyond 9999 every float is 0 or inf
RECURSIVE SmallNat(_)
SmallNat(ds) ==
    IF ds = <<>> THEN 0 ELSE (10 * SmallNat(SubSeq(ds, 1, Len(ds) - 1))) + (ds[Len(ds)] - 48)

ExpValue(ds) == IF Len(StripZeros(ds)) > 4 THEN 9999 ELSE SmallNat(StripZeros(ds))

\* the text of a float: its kind, its sign, the digits before and after the
\* point, and the exponent
ParseFloat(t0) ==
    LET Ok(s) == UnderscoresOk(s) /\ IsDigits(DropUnderscores(s))
        Digits(ex) == IF ex # <<>> /\ ex[1] \in {43, 45} THEN Tail(ex) ELSE ex
        Dec(neg, ip, fp, ex, bare) ==
            IF ~(Ok(ip) /\ Ok(fp) /\ ip \o fp # <<>>) THEN [kind |-> "invalid"]
            ELSE IF ~(bare \/ (Ok(Digits(ex)) /\ Digits(ex) # <<>>)) THEN [kind |-> "invalid"]
            ELSE [kind |-> "dec", neg |-> neg,
                  ip |-> DropUnderscores(ip), fp |-> DropUnderscores(fp),
                  exp |-> IF ex # <<>> /\ ex[1] = 45
                          THEN 0 - ExpValue(DropUnderscores(Digits(ex)))
                          ELSE ExpValue(DropUnderscores(Digits(ex)))]
        Mantissa(neg, mant, ex, bare, dots) ==
            IF dots = {} THEN Dec(neg, mant, <<>>, ex, bare)
            ELSE Dec(neg, SubSeq(mant, 1, SetMin(dots) - 1),
                     SubSeq(mant, SetMin(dots) + 1, Len(mant)), ex, bare)
        Dotted(neg, mant, ex, bare) ==
            Mantissa(neg, mant, ex, bare, {k \in 1..Len(mant) : mant[k] = 46})
        Split(neg, u, es) ==
            IF es = {} THEN Dotted(neg, u, <<>>, TRUE)
            ELSE Dotted(neg, SubSeq(u, 1, SetMin(es) - 1), SubSeq(u, SetMin(es) + 1, Len(u)), FALSE)
        Unsigned(neg, u) ==
            IF lower(u) \in {<<105, 110, 102>>, <<105, 110, 102, 105, 110, 105, 116, 121>>}
            THEN [kind |-> "inf", neg |-> neg]
            ELSE IF lower(u) = <<110, 97, 110>> THEN [kind |-> "nan"]
            ELSE Split(neg, u, {k \in 1..Len(u) : u[k] \in {101, 69}})
        Signed(t) ==
            IF t # <<>> /\ t[1] \in {43, 45} THEN Unsigned(t[1] = 45, Tail(t))
            ELSE Unsigned(FALSE, t)
    IN Signed(strip(t0))

\* The integer x with a fraction below it (sticky: the fraction is not zero)
\* rounded to 53 bits, for x of more than 53 bits.
Round53(x, sticky) ==
    LET Parts(sh, top, rest) ==
            Shl(IF MagLess({sh - 1}, rest) \/ (rest = {sh - 1} /\ (sticky \/ 0 \in top))
                THEN MagInc(top) ELSE top, sh)
        At(sh) == Parts(sh, Shr(x, sh), {k \in x : k < sh})
    IN At(SetMax(x) - 52)

\* int(float(.)) of the integer q plus the fraction 0.fp, fp not all zeros:
\* the float has 52 - SetMax(q) bits below the point, and reaches q + 1 when
\* the fraction is within half a unit of the last of them from 1.
TruncRounded(q, fp) ==
    LET Near(f, one, gap) == MagLess(gap, one) \/ (gap = one /\ (f > 0 \/ 0 \in q))
        Gap(f, one) == Near(f, one, Shl(MagSub(one, MagOfDigits(fp, 0, Len(fp), {})), f + 1))
        Top(top) ==
            IF top > 52 THEN Round53(q, TRUE)
            ELSE IF fp[1] < 53 THEN q
            ELSE IF Gap(52 - top, MagOfDigits(<<49>> \o Zeros(Len(fp)), 0, Len(fp) + 1, {}))
                 THEN MagInc(q)
            ELSE q
    IN Top(IF q = {} THEN 0 - 1 ELSE SetMax(q))

\* int(float(t)): the exception raised, or the int
IntOfFloatText(t) ==
    LET Rounded(n) == IF n = {} \/ SetMax(n) < 53 THEN n ELSE Round53(n, FALSE)
        Finite(neg, r) ==
            IF r # {} /\ SetMax(r) >= 1024 THEN [exc |-> "OverflowError"]
            ELSE [exc |-> "none", val |-> PyInt(neg, r)]
        Whole(neg, whole) ==
            IF Len(whole) > 309 THEN [exc |-> "OverflowError"]
            ELSE Finite(neg, Rounded(MagOfDigits(whole, 0, Len(whole), {})))
        Fraction(neg, q, frac) ==
            IF StripZeros(frac) = <<>> THEN [exc |-> "none", val |-> PyInt(neg, Rounded(q))]
            ELSE [exc |-> "none", val |-> PyInt(neg, TruncRounded(q, frac))]
        Cut(neg, padded, cut) ==
            Fraction(neg, MagOfDigits(padded, 0, cut, {}), SubSeq(padded, cut + 1, Len(padded)))
        Padded(neg, padded, e10) == Cut(neg, padded, Len(padded) + e10)
        Scaled(neg, ds, e10) ==
            IF ds = <<>> THEN [exc |-> "none", val |-> PyInt(FALSE, {})]
            ELSE IF e10 >= 0 THEN Whole(neg, ds \o Zeros(e10))
            ELSE Padded(neg, Zeros(Max(0, (0 - e10) - Len(ds))) \o ds, e10)
        Kind(p) ==
            IF p.kind = "invalid" THEN [exc |-> "ValueError"]
            ELSE IF p.kind = "nan" THEN [exc |-> "ValueError"]
            ELSE IF p.kind = "inf" THEN [exc |-> "OverflowError"]
            ELSE Scaled(p.neg, StripZeros(p.ip \o p.fp), p.exp - Len(p.fp))
    IN Kind(ParseFloat(t))

(***************************************************************************)
(* highscores.py.  A dict is the sequence of its items in insertion order; *)
(* a value tuple is <<filename, winner, value, timestamp>> with Python     *)
(* ints for the last two.  A score file is its bytes.  Strings hold code   *)
(* points that str.lower leaves alone above 255.                           *)
(***************************************************************************)
VERSION == 2
INT64_MIN == PyInt(TRUE, {63})

\* dict.get(k): None or the value
MapGet(m, k) ==
    LET hit == {j \in 1..Len(m) : m[j].key = k}
    IN IF hit = {} THEN None ELSE Some(m[SetMin(hit)].val)

\* m[k] = v: an existing key keeps its place
MapSet(m, k, v) ==
    IF \E j \in 1..Len(m) : m[j].key = k
    THEN Tup([j \in 1..Len(m) |-> IF m[j].key = k THEN [key |-> k, val |-> v] ELSE m[j]], Len(m))
    ELSE Append(m, [key |-> k, val |-> v])

\* A company_value field is None, Some(n) for an int n (a row of
\* parse_tables) or Text(t) for a str t (a cell of a CSV file).
Text(t) == <<"str", t>>
IsText(field) == Len(field) = 2

\* to_money64 (highscores.py:40-50): the int returned, or the exception
\* that leaves it.  Only ValueError is caught.
to_money64(field) ==
    LET Zero == [exc |-> "none", val |-> PyInt(FALSE, {})]
        Coerced(v) == IF v.exc = "ValueError" THEN Zero ELSE v
        Stripped(s) == IF s = <<>> THEN Zero ELSE Coerced(IntOfFloatText(s))
    IN IF field = None THEN Zero
       ELSE Stripped(strip(IF IsText(field) THEN field[2] ELSE Str(field[1])))

\* rows_from_css0 (highscores.py:88-96): one normalized row
NormalizedRow(r) ==
    [filename |-> r.filename, name |-> r.name,
     company_value |-> r.company_value, winner |-> r.winner]

\* best_map_from_rows (highscores.py:136-147): one pass through the loop on
\* the state [exc, map]; an exception ends the loop
BestStep(st, r) ==
    LET Better(fn, winner, val, prev) ==
            IF prev = None \/ IntLess(prev[1][3], val)
            THEN [exc |-> "none", map |-> MapSet(st.map, lower(fn), <<fn, winner, val, INT64_MIN>>)]
            ELSE st
        Valued(fn, winner, val) ==
            IF val.exc # "none" THEN [exc |-> val.exc, map |-> st.map]
            ELSE Better(fn, winner, val.val, MapGet(st.map, lower(fn)))
        Row(fn, winner) ==
            IF fn = <<>> THEN st
            ELSE IF winner = <<>> THEN st
            ELSE Valued(fn, winner, to_money64(r.company_value))
    IN IF st.exc # "none" THEN st
       ELSE Row(PathName(strip(r.filename)), strip(r.winner))

\* the loop over rs[a+1..b] in order, starting from st
RECURSIVE BestFold(_, _, _, _)
BestFold(rs, a, b, st) ==
    IF Now(st) /\ b <= a THEN st
    ELSE IF b = a + 1 THEN BestStep(st, rs[b])
    ELSE BestFold(rs, (a + b) \div 2, b, BestFold(rs, a, (a + b) \div 2, st))

\* best_map_from_rows (highscores.py:130-148): [exc, map]
best_map_from_rows(rs) == BestFold(rs, 0, Len(rs), [exc |-> "none", map |-> <<>>])

\* str.encode('utf-8') of one code point (no surrogates)
Utf8Encode(c) ==
    IF c < 128 THEN <<c>>
    ELSE IF c < 2048 THEN <<192 + (c \div 64), 128 + (c % 64)>>
    ELSE IF c < 65536 THEN <<224 + (c \div 4096), 128 + ((c \div 64) % 64), 128 + (c % 64)>>
    ELSE <<240 + (c \div 262144), 128 + ((c \div 4096) % 64),
           128 + ((c \div 64) % 64), 128 + (c % 64)>>

RECURSIVE EncodeStr(_)
EncodeStr(s) == IF s = <<>> THEN <<>> ELSE Utf8Encode(s[1]) \o EncodeStr(Tail(s))

\* write_cstring (highscores.py:34-37): the bytes written
write_cstring(s) == EncodeStr(s) \o <<0>>

\* bytes.decode('utf-8', errors='replace'): at position at (from 1), the
\* number of bytes taken and the code point; an ill-formed sequence gives
\* U+FFFD for its longest prefix that begins a well-formed one.
Cont(bs, j, lo, hi) == j <= Len(bs) /\ bs[j] >= lo /\ bs[j] <= hi

Utf8At(bs, at) ==
    LET b == bs[at]
        lo2 == IF b = 224 THEN 160 ELSE IF b = 240 THEN 144 ELSE 128
        hi2 == IF b = 237 THEN 159 ELSE IF b = 244 THEN 143 ELSE 191
        need == IF b < 128 THEN 1
                ELSE IF b >= 194 /\ b <= 223 THEN 2
                ELSE IF b >= 224 /\ b <= 239 THEN 3
                ELSE IF b >= 240 /\ b <= 244 THEN 4 ELSE 0
        good == IF need <= 1 THEN 1
                ELSE IF ~Cont(bs, at + 1, lo2, hi2) THEN 1
                ELSE IF need = 2 THEN 2
                ELSE IF ~Cont(bs, at + 2, 128, 191) THEN 2
                ELSE IF need = 3 THEN 3
                ELSE IF ~Cont(bs, at + 3, 128, 191) THEN 3 ELSE 4
    IN IF need = 0 \/ good < need THEN [n |-> good, c |-> 65533]
       ELSE IF need = 1 THEN [n |-> 1, c |-> b]
       ELSE IF need = 2 THEN [n |-> 2, c |-> ((b - 192) * 64) + (bs[at + 1] - 128)]
       ELSE IF need = 3
            THEN [n |-> 3, c |-> (((b - 224) * 4096) + ((bs[at + 1] - 128) * 64)) + (bs[at + 2] - 128)]
       ELSE [n |-> 4, c |-> (((b - 240) * 262144) + ((bs[at + 1] - 128) * 4096))
                            + (((bs[at + 2] - 128) * 64) + (bs[at + 3] - 128))]

RECURSIVE DecodeFrom(_, _)
DecodeFrom(bs, at) ==
    IF at > Len(bs) THEN <<>> ELSE <<Utf8At(bs, at).c>> \o DecodeFrom(bs, at + Utf8At(bs, at).n)

Utf8Decode(bs) == DecodeFrom(bs, 1)

\* _read_cstring (highscores.py:100-107) at offset pos of the file f: the
\* string and the offset after it
read_cstring(f, pos) ==
    LET end == SetMin({j \in pos..Len(f) : j = Len(f) \/ f[j + 1] = 0})
    IN [s |-> Utf8Decode(SubSeq(f, pos + 1, end)), next |-> Min(end + 1, Len(f))]

\* int.from_bytes(bs, "little"): the magnitude
FromBytes(bs) == UNION {Shl(BitsOf(bs[k], 8), 8 * (k - 1)) : k \in 1..Len(bs)}

\* int.from_bytes(bs, "little", signed=True)
FromBytesSigned(bs) ==
    IF ((8 * Len(bs)) - 1) \in FromBytes(bs)
    THEN PyInt(TRUE, MagInc((0..((8 * Len(bs)) - 1)) \ FromBytes(bs)))
    ELSE PyInt(FALSE, FromBytes(bs))

\* k < cnt for a loop counter k
BelowCount(k, cnt) ==
    (\E b \in cnt : b >= 31) \/ k < (Limb(cnt, 0) + (65536 * Limb(cnt, 16)))

\* load_highscores (highscores.py:119-126): the loop from pass k on, reading
\* at offset pos.  A pass that starts at the end of the file reads nothing
\* and stores the same empty entry as every pass after it.
RECURSIVE LoadFold(_, _, _, _, _)
LoadFold(f, pos, k, cnt, result) ==
    IF Now(result) /\ ~BelowCount(k, cnt) THEN result
    ELSE IF pos >= Len(f)
         THEN MapSet(result, <<>>, <<<<>>, <<>>, PyInt(FALSE, {}), PyInt(FALSE, {})>>)
    ELSE LET fn == read_cstring(f, pos)
             name == read_cstring(f, fn.next)
             val == FromBytesSigned(Slice(f, name.next, name.next + 8))
             ts == FromBytesSigned(Slice(f, name.next + 8, name.next + 16))
         IN LoadFold(f, Min(name.next + 16, Len(f)), k + 1, cnt,
                     MapSet(result, lower(fn.s), <<fn.s, name.s, val, ts>>))

\* the loop body runs once before the count is looked at
load_highscores_AtLeastOnce(f) ==
    IF f = None THEN <<>>
    ELSE LoadFold(f[1], Min(8, Len(f[1])), 0,
                  IF FromBytes(Slice(f[1], 4, 8)) = {} THEN {0} ELSE FromBytes(Slice(f[1], 4, 8)),
                  <<>>)

\* load_highscores (highscores.py:110-127); f is None when the path does not exist
load_highscores(f) ==
    IF f = None THEN <<>>
    ELSE LoadFold(f[1], Min(8, Len(f[1])), 0, FromBytes(Slice(f[1], 4, 8)), <<>>)

\* _run_build (highscores.py:247-251): the merge loop over new_map's items
RECURSIVE MergeFold(_, _, _)
MergeFold(new_map, k, merged) ==
    IF Now(merged) /\ k >= Len(new_map) THEN merged
    ELSE LET it == new_map[k + 1]
             prev == MapGet(merged, it.key)
         IN MergeFold(new_map, k + 1,
                IF prev = None \/ IntLess(prev[1][3], it.val[3])
                THEN MapSet(merged, it.key, it.val) ELSE merged)

\* list.sort(key=lambda t: t[0].lower()) (highscores.py:152-154): stable
RECURSIVE SortItems(_)
SortItems(items) ==
    IF Len(items) <= 1 THEN items
    ELSE LET rest == SortItems(SubSeq(items, 1, Len(items) - 1))
             x == items[Len(items)]
             pos == Cardinality({j \in 1..Len(rest) : ~StrLess(lower(x[1]), lower(rest[j][1]))})
         IN (SubSeq(rest, 1, pos) \o <<x>>) \o SubSeq(rest, pos + 1, Len(rest))

\* -2^63 <= v < 2^63
InInt64(v) == IF v.neg THEN ~MagLess({63}, v.mag) ELSE \A k \in v.mag : k < 63

\* the magnitude of v, low byte first, whatever its sign
PackQ_Magnitude(v) ==
    Tup([k \in 1..8 |-> ByteVal(v.mag, 8 * (k - 1))], 8)

\* struct.pack("<q", v) for v in range: two's complement, low byte first
PackQ(v) ==
    LET bits == IF v.neg THEN (0..63) \ MagDec(v.mag) ELSE v.mag
    IN Tup([k \in 1..8 |-> ByteVal(bits, 8 * (k - 1))], 8)

\* struct.pack("<I", n) for a length n
PackI(n) == PackDwordLE(BitsOf(n, 31))

\* write_from_map (highscores.py:158-162): the loop from item k on; f is
\* what has been written.  struct.pack raises struct.error on an int out of
\* range, and the with block closes the file with what was written before.
RECURSIVE WriteItems(_, _, _)
WriteItems(items, k, f) ==
    IF Now(f) /\ k >= Len(items) THEN [exc |-> "none", file |-> f]
    ELSE LET it == items[k + 1]
             strs == f \o (write_cstring(it[1]) \o write_cstring(it[2]))
         IN IF ~InInt64(it[3]) THEN [exc |-> "struct.error", file |-> strs]
            ELSE IF ~InInt64(it[4])
                 THEN [exc |-> "struct.error", file |-> strs \o PackQ(it[3])]
            ELSE WriteItems(items, k + 1, strs \o (PackQ(it[3]) \o PackQ(it[4])))

\* write_from_map (highscores.py:151-162): the exception, and the file left
write_from_map(entries) ==
    LET items == SortItems(Tup([k \in 1..Len(entries) |-> entries[k].val], Len(entries)))
    IN WriteItems(items, 0, PackI(VERSION) \o PackI(Len(items)))

(***************************************************************************)
(* process_file (core.py:282-327) and _run_build (highscores.py:232-258),  *)
(* one stage at a time.  _run_build is run on an archive (css0 is not      *)
(* None): it calls rows_from_css0, which calls process_file on a CSV in a  *)
(* temporary directory with keep_intermediate=False.                       *)
(***************************************************************************)
\* core.py:304-306: <<ok, calc>> for the archive r of at least 4 bytes
ProcessVerify_Ignored(r) ==
    <<TRUE, verify_checksum(Slice(r, 0, Len(r) - 4),
                            UnpackDwordLE(Slice(r, Len(r) - 4, Len(r))))[2]>>

ProcessVerify(r) ==
    verify_checksum(Slice(r, 0, Len(r) - 4), UnpackDwordLE(Slice(r, Len(r) - 4, Len(r))))

ArchiveBytes == {0, 65, 128, 255}

\* The stored checksum of an archive: the right one, zero, and the right one
\* with its low byte off by one.
ArchiveTails(b) ==
    {ChecksumBytes(b), <<0, 0, 0, 0>>,
     <<(ChecksumBytes(b)[1] + 1) % 256>> \o SubSeq(ChecksumBytes(b), 2, 4)}

ShortArchives == {<<>>, <<0>>, <<128, 65>>, <<193, 212, 1>>}

Archives ==
    ShortArchives \cup
    UNION {{b \o t : t \in ArchiveTails(b)} : b \in SeqsUpTo(ArchiveBytes, MaxArchiveBody)}

\* A score file holding the given entries in the given order
RECURSIVE EntryBytes(_)
EntryBytes(items) ==
    IF items = <<>> THEN <<>>
    ELSE ((write_cstring(items[1][1]) \o write_cstring(items[1][2]))
          \o (PackQ(items[1][3]) \o PackQ(items[1][4]))) \o EntryBytes(Tail(items))

ScoreFileOf(items) == (PackI(VERSION) \o PackI(Len(items))) \o EntryBytes(items)

\* The score file before the run: none, an empty one, and one with the
\* entries b.SC4 (w, 7, timestamp 1) and A.sc4 (x, -3, no timestamp).
ScoreFilesBefore ==
    {None,
     Some(ScoreFileOf(<<>>)),
     Some(ScoreFileOf(<< << <<98, 46, 83, 67, 52>>, <<119>>, PyInt(FALSE, {0, 1, 2}), PyInt(FALSE, {0}) >>,
                         << <<65, 46, 115, 99, 52>>, <<120>>, PyInt(TRUE, {0, 1}), INT64_MIN >> >>))}

Init ==
    /\ raw \in Archives
    /\ mode \in {"process_file", "build"}
    /\ keep \in (IF mode = "build" THEN {FALSE} ELSE BOOLEAN)
    /\ merge \in (IF mode = "build" THEN BOOLEAN ELSE {FALSE})
    /\ pc = IF mode = "build" THEN "build" ELSE "start"
    /\ err = None
    /\ stages = <<>>
    /\ decompr_raw = <<>> /\ decryptedBytes = <<>> /\ parsedRows = <<>> /\ existing_map = <<>>
    /\ fsCsv = None /\ fsDecompressed = None /\ fsDecrypted = None
    /\ fsScore \in ScoreFilesBefore
    /\ fsScoreBefore = fsScore
    /\ writes = {}
    \* the other components are not running
    /\ ChkIdle
    /\ RleIdle
    /\ DecIdle
    /\ ParseIdle
    /\ ScoreIdle
    /\ MoreIdle

\* highscores.py:233-239 and 83-85: existing_map is loaded, then process_file is called
BuildBegin ==
    /\ pc = "build"
    /\ existing_map' = IF merge /\ fsScore # None THEN load_highscores(fsScore) ELSE <<>>
    /\ pc' = "start"
    /\ UNCHANGED <<raw, mode, keep, merge, err, stages, decompr_raw, decryptedBytes, parsedRows,
                   fsCsv, fsDecompressed, fsDecrypted, fsScore, fsScoreBefore, writes>>
    /\ UNCHANGED notRun

\* the length check also turns away an archive of exactly 4 bytes
ProcessTooSmall_RejectsFour ==
    /\ pc = "start"
    /\ Len(raw) <= 4
    /\ err' = Some([type |-> "ValueError", message |-> "Input file too small to contain checksum"])
    /\ stages' = Append(stages, "length_check")
    /\ pc' = "raised"
    /\ UNCHANGED <<raw, mode, keep, merge, decompr_raw, decryptedBytes, parsedRows, existing_map,
                   fsCsv, fsDecompressed, fsDecrypted, fsScore, fsScoreBefore, writes>>
    /\ UNCHANGED notRun

\* core.py:300-302
ProcessTooSmall ==
    /\ pc = "start"
    /\ Len(raw) < 4
    /\ err' = Some([type |-> "ValueError", message |-> "Input file too small to contain checksum"])
    /\ stages' = Append(stages, "length_check")
    /\ pc' = "raised"
    /\ UNCHANGED <<raw, mode, keep, merge, decompr_raw, decryptedBytes, parsedRows, existing_map,
                   fsCsv, fsDecompressed, fsDecrypted, fsScore, fsScoreBefore, writes>>
    /\ UNCHANGED notRun

\* core.py:300-310, the checksum differs
ProcessChecksumMismatch ==
    /\ pc = "start"
    /\ ~(Len(raw) < 4)
    /\ ~ProcessVerify(raw)[1]
    /\ err' = Some([type |-> "ValueError", message |-> "Checksum mismatch",
                    expected |-> UnpackDwordLE(Slice(raw, Len(raw) - 4, Len(raw))),
                    calculated |-> ProcessVerify(raw)[2]])
    /\ stages' = stages \o <<"length_check", "verify_checksum">>
    /\ pc' = "raised"
    /\ UNCHANGED <<raw, mode, keep, merge, decompr_raw, decryptedBytes, parsedRows, existing_map,
                   fsCsv, fsDecompressed, fsDecrypted, fsScore, fsScoreBefore, writes>>
    /\ UNCHANGED notRun

\* core.py:300-312, the checksum matches
ProcessChecksumOk ==
    /\ pc = "start"
    /\ ~(Len(raw) < 4)
    /\ ProcessVerify(raw)[1]
    /\ stages' = stages \o <<"length_check", "verify_checksum">>
    /\ pc' = "decompress"
    /\ UNCHANGED <<raw, mode, keep, merge, err, decompr_raw, decryptedBytes, parsedRows,
                   existing_map, fsCsv, fsDecompressed, fsDecrypted, fsScore, fsScoreBefore, writes>>
    /\ UNCHANGED notRun

\* the decompressor is given the archive with its 4 checksum bytes as body
ProcessDecompress_WholeArchive ==
    /\ pc = "decompress"
    /\ decompr_raw' = RleLoop(raw, 0, <<>>)
    /\ fsDecompressed' = IF keep THEN Some(RleLoop(raw, 0, <<>>)) ELSE fsDecompressed
    /\ writes' = IF keep THEN writes \cup {"CSS0.decompressed.raw.bin"} ELSE writes
    /\ stages' = Append(stages, "rle_decompress")
    /\ pc' = "decrypt"
    /\ UNCHANGED <<raw, mode, keep, merge, err, decryptedBytes, parsedRows, existing_map,
                   fsCsv, fsDecrypted, fsScore, fsScoreBefore>>
    /\ UNCHANGED notRun

\* core.py:313-317
ProcessDecompress ==
    /\ pc = "decompress"
    /\ decompr_raw' = rle_decompress(raw)
    /\ fsDecompressed' = IF keep THEN Some(rle_decompress(raw)) ELSE fsDecompressed
    /\ writes' = IF keep THEN writes \cup {"CSS0.decompressed.raw.bin"} ELSE writes
    /\ stages' = Append(stages, "rle_decompress")
    /\ pc' = "decrypt"
    /\ UNCHANGED <<raw, mode, keep, merge, err, decryptedBytes, parsedRows, existing_map,
                   fsCsv, fsDecrypted, fsScore, fsScoreBefore>>
    /\ UNCHANGED notRun

\* core.py:318-322
ProcessDecrypt ==
    /\ pc = "decrypt"
    /\ decryptedBytes' = decrypt_dwords_le(decompr_raw)
    /\ fsDecrypted' = IF keep THEN Some(decrypt_dwords_le(decompr_raw)) ELSE fsDecrypted
    /\ writes' = IF keep THEN writes \cup {"CSS0.decrypted.bin"} ELSE writes
    /\ stages' = Append(stages, "decrypt_dwords_le")
    /\ pc' = "parse"
    /\ UNCHANGED <<raw, mode, keep, merge, err, decompr_raw, parsedRows, existing_map,
                   fsCsv, fsDecompressed, fsScore, fsScoreBefore>>
    /\ UNCHANGED notRun

\* core.py:323-327 and 275-279: parse_and_write, then return rows
ProcessParseAndWrite ==
    /\ pc = "parse"
    /\ parsedRows' = parse_tables(decryptedBytes)
    /\ fsCsv' = Some(write_csv(parse_tables(decryptedBytes)))
    /\ writes' = writes \cup {"csv"}
    /\ stages' = stages \o <<"parse_tables", "write_csv">>
    /\ pc' = "returned"
    /\ UNCHANGED <<raw, mode, keep, merge, err, decompr_raw, decryptedBytes, existing_map,
                   fsDecompressed, fsDecrypted, fsScore, fsScoreBefore>>
    /\ UNCHANGED notRun

\* highscores.py:83-97 and 245-258: the temporary directory is removed, the
\* rows are normalized, reduced, merged when asked, and written
BuildWrite ==
    /\ pc = "returned"
    /\ mode = "build"
    /\ LET normalized == Tup([k \in 1..Len(parsedRows) |-> NormalizedRow(parsedRows[k])],
                             Len(parsedRows))
           Handed(new_map) == IF merge THEN MergeFold(new_map, 0, existing_map) ELSE new_map
       IN fsScore' = Some(write_from_map(Handed(best_map_from_rows(normalized).map)).file)
    /\ fsCsv' = None
    /\ writes' = writes \cup {"highscores.dat"}
    /\ stages' = Append(stages, "write_from_map")
    /\ pc' = "built"
    /\ UNCHANGED <<raw, mode, keep, merge, err, decompr_raw, decryptedBytes, parsedRows,
                   existing_map, fsDecompressed, fsDecrypted, fsScoreBefore>>
    /\ UNCHANGED notRun

\* highscores.py:83-85 and 240: the exception of process_file leaves the with
\* block, which removes the temporary directory, and then _run_build
BuildAbort ==
    /\ pc = "raised"
    /\ mode = "build"
    /\ fsCsv' = None
    /\ pc' = "build_raised"
    /\ UNCHANGED <<raw, mode, keep, merge, err, stages, decompr_raw, decryptedBytes, parsedRows,
                   existing_map, fsDecompressed, fsDecrypted, fsScore, fsScoreBefore, writes>>
    /\ UNCHANGED notRun

(***************************************************************************)
(* Specifications.                                                         *)
(***************************************************************************)
Next ==
    \/ BuildBegin \/ ProcessTooSmall \/ ProcessChecksumMismatch \/ ProcessChecksumOk
    \/ ProcessDecompress \/ ProcessDecrypt \/ ProcessParseAndWrite
    \/ BuildWrite \/ BuildAbort
Spec == Init /\ [][Next]_vars

NextChk == ChkByte \/ ChkReturn
SpecChk == InitChk /\ [][NextChk]_vars

NextRle == RleTooShort \/ RleBegin \/ RleUnit \/ RleExit
\* rle_decompress is a synchronous loop: whenever a step is possible it is taken.
SpecRle == InitRle /\ [][NextRle]_vars /\ WF_vars(NextRle)

NextDec == DecChunk \/ DecExit
SpecDec == InitDec /\ [][NextDec]_vars

NextParse == ParseFiles \/ ParseNames \/ ParseComps \/ ParseWins \/ ParseRows
SpecParse == InitParse /\ [][NextParse]_vars

(***************************************************************************)
(* C2.  The checksum as the specification words it, on the accumulator's   *)
(* four bytes (least significant first).                                   *)
(***************************************************************************)
\* Replace the low 8 bits by (low8 + b) mod 256, then rotate the 32 bits left by 3.
RefAccStep(acc, b) ==
    LET a == <<(acc[1] + b) % 256, acc[2], acc[3], acc[4]>>
    IN <<((a[1] * 8) % 256) + (a[4] \div 32), ((a[2] * 8) % 256) + (a[1] \div 32),
         ((a[3] * 8) % 256) + (a[2] \div 32), ((a[4] * 8) % 256) + (a[3] \div 32)>>

RECURSIVE RefAcc(_, _)
RefAcc(d, n) == IF n = 0 THEN <<0, 0, 0, 0>> ELSE RefAccStep(RefAcc(d, n - 1), d[n])

\* acc + 120001 mod 2^32
RefChecksum(d) ==
    LET acc == RefAcc(d, Len(d))
        lo == acc[1] + (256 * acc[2]) + 120001
        hi == (acc[3] + (256 * acc[4]) + (lo \div 65536)) % 65536
    IN <<lo % 256, (lo \div 256) % 256, hi % 256, hi \div 256>>

RefSigned(c) == IF c >= 128 THEN c - 256 ELSE c
\* The number of bytes of the unit whose control byte is c.
RefUnitLen(c) == IF RefSigned(c) >= 0 THEN RefSigned(c) + 2 ELSE 2

\* The length of the longest prefix of s, from index k on, made of whole units.
RECURSIVE CompleteLen(_, _)
CompleteLen(s, k) ==
    IF k >= Len(s) \/ k + RefUnitLen(s[k + 1]) > Len(s) THEN k
    ELSE CompleteLen(s, k + RefUnitLen(s[k + 1]))

WellFormed(s) == CompleteLen(s, 0) = Len(s)

\* The block of the whole unit that starts at index k.
RefBlock(s, k) ==
    IF RefSigned(s[k + 1]) >= 0
    THEN SubSeq(s, k + 2, k + 2 + RefSigned(s[k + 1]))
    ELSE Tup([j \in 1..(1 - RefSigned(s[k + 1])) |-> s[k + 2]], 1 - RefSigned(s[k + 1]))

\* The blocks of the whole units of s[k..n-1], in order.
RECURSIVE RefOut(_, _, _)
RefOut(s, k, n) ==
    IF k >= n THEN <<>> ELSE RefBlock(s, k) \o RefOut(s, k + RefUnitLen(s[k + 1]), n)

\* C3: for a well-formed body the output is the concatenation of one block
\* per control byte, and the 4 trailing bytes contribute nothing.
C3_RleWellFormedOutput ==
    (rlePc = "done" /\ Len(data) >= 4 /\ WellFormed(BodyOf(data))) =>
        out = RefOut(BodyOf(data), 0, Len(data) - 4)

\* A literal of 128 bytes followed by a run of 129 copies, fully decoded.
C3_Witness ==
    /\ rlePc = "done"
    /\ Len(data) >= 4
    /\ WellFormed(BodyOf(data))
    /\ Len(out) = 128 + 129
    /\ unit = "repeat"

\* C4: rle_decompress terminates, the read index grows on every pass through
\* the loop, and every index it reads is an index of body.
C4_RleTerminatesInBounds ==
    /\ [](reads \subseteq 0..(Len(body) - 1))
    /\ [][(rlePc = "loop" /\ i < Len(body)) => i' > i]_vars
    /\ <>(rlePc = "done")

\* A run whose value byte is missing ended the decoding of a non-empty body.
C4_Witness ==
    /\ rlePc = "done"
    /\ unit = "missing"
    /\ i = Len(body)
    /\ Len(body) >= 3

\* C5: on a malformed body the output is what the whole units before the
\* truncated one give, followed by the bytes that remain after a literal
\* control byte, or by nothing after a run control byte, which is then the
\* last byte of the body.
C5_RlePartialOutput ==
    (rlePc = "done" /\ Len(data) >= 4 /\ ~WellFormed(BodyOf(data))) =>
        LET b == BodyOf(data)
            n == CompleteLen(b, 0)
        IN /\ RefSigned(b[n + 1]) < 0 => n + 1 = Len(b)
           /\ out = RefOut(b, 0, n)
                    \o (IF RefSigned(b[n + 1]) >= 0 THEN SubSeq(b, n + 2, Len(b)) ELSE <<>>)
           /\ unit \in {"clamped", "missing"}

\* A literal cut short after a whole run: the run and the remaining byte come out.
C5_Witness ==
    /\ rlePc = "done"
    /\ unit = "clamped"
    /\ ~WellFormed(BodyOf(data))
    /\ CompleteLen(BodyOf(data), 0) >= 2
    /\ Len(data) - 4 >= CompleteLen(BodyOf(data), 0) + 2
    /\ Len(out) >= 3

(***************************************************************************)
(* C6, C7.  The word transform as the specification words it, on the       *)
(* word's two 16-bit halves.                                               *)
(***************************************************************************)
\* plain = (rotateLeft32(word, 5) - 0x39393939) mod 2^32
RefDecryptWord(w) ==
    LET lo == w[1] + (256 * w[2])
        hi == w[3] + (256 * w[4])
        rlo == ((lo * 32) % 65536) + (hi \div 2048)
        rhi == ((hi * 32) % 65536) + (lo \div 2048)
        plo == rlo - 14649
        phi == rhi - 14649 - (IF plo < 0 THEN 1 ELSE 0)
        qlo == (plo + 65536) % 65536
        qhi == (phi + 131072) % 65536
    IN <<qlo % 256, qlo \div 256, qhi % 256, qhi \div 256>>

\* The inverse transform on one 4-byte chunk:
\* cipher = rotateRight32((plain + 0x39393939) mod 2^32, 5)
EncryptWord(chunk) ==
    PackDwordLE(rotr32(BitAnd(BitAdd(UnpackDwordLE(chunk), BitsOf(MAGIC_ADD, 31)), MASK32), 5))

\* The inverse transform on a buffer whose length is a multiple of 4.
RECURSIVE encrypt(_)
encrypt(x) ==
    IF Len(x) < 4 THEN <<>>
    ELSE EncryptWord(SubSeq(x, 1, 4)) \o encrypt(SubSeq(x, 5, Len(x)))

WordAt(s, w) == SubSeq(s, (4 * w) + 1, (4 * w) + 4)

\* C6: on a buffer of whole words decrypt_dwords_le undoes the inverse
\* transform, the inverse transform undoes it, and distinct cipher words give
\* distinct plain words.
C6_DecryptIsBijection ==
    (decPc = "done" /\ Len(decData) % 4 = 0) =>
        /\ decrypt_dwords_le(encrypt(decData)) = decData
        /\ encrypt(decOut) = decData
        /\ \A j, k \in 0..((Len(decData) \div 4) - 1) :
              WordAt(decData, j) # WordAt(decData, k) => WordAt(decOut, j) # WordAt(decOut, k)

\* Two distinct cipher words were decrypted.
C6_Witness ==
    /\ decPc = "done"
    /\ Len(decData) = 8
    /\ WordAt(decData, 0) # WordAt(decData, 1)
    /\ Len(decOut) = 8
    /\ decOut # decData

\* C7: the output has the length of the input; each whole word is the
\* transform of the input word at the same place; the n mod 4 trailing bytes
\* are the input's.
C7_DecryptFrame ==
    /\ decPc = "loop" => Len(decOut) = decI
    /\ decPc = "done" =>
          /\ Len(decOut) = Len(decData)
          /\ \A w \in 0..((Len(decData) \div 4) - 1) :
                WordAt(decOut, w) = RefDecryptWord(WordAt(decData, w))
          /\ SubSeq(decOut, (4 * (Len(decData) \div 4)) + 1, Len(decData))
                = SubSeq(decData, (4 * (Len(decData) \div 4)) + 1, Len(decData))

\* A buffer of one word and three trailing bytes was decrypted.
C7_Witness ==
    /\ decPc = "done"
    /\ Len(decData) = 7
    /\ Len(decOut) = 7
    /\ WordAt(decOut, 0) # WordAt(decData, 0)

(***************************************************************************)
(* C8, C9, C10.  Table counts and rows of parse_tables.                    *)
(***************************************************************************)
\* min(128, floor((L - offset) / entrySize)), 0 when L <= offset
RefCount(L, offset, entrySize) ==
    IF L <= offset THEN 0
    ELSE IF (L - offset) \div entrySize > 128 THEN 128 ELSE (L - offset) \div entrySize

\* C8: each table read so far holds min(128, floor((L - offset) / entrySize))
\* entries, none when L <= offset: filenames at 0 by 16, scenario names at
\* 0x0800 by 64, company values at 0x2800 by 4, winners at 0x2A00 by 32.
C8_TableCounts ==
    /\ parsePc \in {"names", "comps", "wins", "rows", "done"} =>
          Len(files) = RefCount(Len(decrypted), 0, 16)
    /\ parsePc \in {"comps", "wins", "rows", "done"} =>
          Len(names) = RefCount(Len(decrypted), 2048, 64)
    /\ parsePc \in {"wins", "rows", "done"} =>
          Len(comps) = RefCount(Len(decrypted), 10240, 4)
    /\ parsePc \in {"rows", "done"} =>
          Len(wins) = RefCount(Len(decrypted), 10752, 32)

\* A buffer longer than all four full tables was parsed: every count is capped.
C8_Witness ==
    /\ parsePc = "done"
    /\ Len(decrypted) >= 14848 + 32
    /\ Len(files) = 128 /\ Len(names) = 128 /\ Len(comps) = 128 /\ Len(wins) = 128

\* C9: every byte range read lies inside the buffer and is a whole record;
\* each table's returned records end at or before the end of the buffer, and
\* each returned record was read exactly once.
C9_ReadsInBounds ==
    /\ \A r \in preads : r.lo >= 0 /\ r.hi <= Len(decrypted) /\ r.hi - r.lo = r.size
    /\ Len(files) > 0 => (Len(files) * 16) <= Len(decrypted)
    /\ Len(names) > 0 => 2048 + (Len(names) * 64) <= Len(decrypted)
    /\ Len(comps) > 0 => 10240 + (Len(comps) * 4) <= Len(decrypted)
    /\ Len(wins) > 0 => 10752 + (Len(wins) * 32) <= Len(decrypted)
    /\ parsePc \in {"rows", "done"} =>
          Cardinality(preads) = (Len(files) + Len(names)) + (Len(comps) + Len(wins))

\* A buffer ending one byte into the second winner record was parsed.
C9_Witness ==
    /\ parsePc = "done"
    /\ Len(decrypted) = 10752 + 33
    /\ Len(wins) = 1
    /\ \E r \in preads : r.hi = 10752 + 32

\* C10: there are max(counts) rows, row i has index i, a text field beyond its
\* table's count is the empty string and a company value beyond the company
\* table's count is None, which is not the integer 0.
C10_RowsShape ==
    parsePc = "done" =>
        /\ Len(rows) >= Len(files) /\ Len(rows) >= Len(names)
        /\ Len(rows) >= Len(comps) /\ Len(rows) >= Len(wins)
        /\ Len(rows) \in {Len(files), Len(names), Len(comps), Len(wins)}
        /\ \A k \in 1..Len(rows) :
              /\ rows[k].index = k - 1
              /\ k > Len(files) => rows[k].filename = <<>>
              /\ k > Len(names) => rows[k].name = <<>>
              /\ k > Len(wins) => rows[k].winner = <<>>
              /\ k > Len(comps) => (rows[k].company_value = None /\ rows[k].company_value # Some(0))
              /\ k <= Len(comps) => rows[k].company_value = Some(comps[k])

\* A buffer with one company value, which is 0, and 128 filenames was parsed.
C10_Witness ==
    /\ parsePc = "done"
    /\ Len(rows) = 128
    /\ Len(comps) = 1
    /\ Len(wins) = 0
    /\ rows[1].company_value = Some(0)
    /\ rows[2].company_value = None

(***************************************************************************)
(* C1.  An archive whose stored checksum differs from the computed one.    *)
(***************************************************************************)
\* The last four bytes of the archive differ from the checksum of the rest.
RefMismatch(r) ==
    /\ Len(r) >= 4
    /\ SubSeq(r, Len(r) - 3, Len(r)) # RefChecksum(SubSeq(r, 1, Len(r) - 4))

\* C1: on a checksum mismatch process_file ends by raising an error that
\* carries the expected (stored) and the calculated checksum; no stage after
\* the verification runs and no file is written; a build from that archive
\* leaves the score file as it was, absent or with the same content.
C1_ChecksumMismatchAborts ==
    RefMismatch(raw) =>
        /\ pc \in {"build", "start", "raised", "build_raised"}
        /\ \A k \in 1..Len(stages) : stages[k] \in {"length_check", "verify_checksum"}
        /\ decompr_raw = <<>> /\ decryptedBytes = <<>> /\ parsedRows = <<>>
        /\ writes = {}
        /\ fsCsv = None /\ fsDecompressed = None /\ fsDecrypted = None
        /\ fsScore = fsScoreBefore
        /\ pc \in {"raised", "build_raised"} =>
              /\ err # None
              /\ err[1].message = "Checksum mismatch"
              /\ PackDwordLE(err[1].expected) = SubSeq(raw, Len(raw) - 3, Len(raw))
              /\ PackDwordLE(err[1].calculated) = RefChecksum(SubSeq(raw, 1, Len(raw) - 4))

\* A merging build from an archive with a wrong checksum has ended, and there
\* was a score file with entries.
C1_Witness ==
    /\ RefMismatch(raw)
    /\ Len(raw) > 4
    /\ mode = "build"
    /\ merge
    /\ pc = "build_raised"
    /\ fsScoreBefore # None
    /\ Len(existing_map) = 2

(***************************************************************************)
(* to_money64 run on its own (highscores.py:40-50).                        *)
(***************************************************************************)
MaxTextLen == 3

\* 0 1 9 . - e and the space
MoneyChars == {48, 49, 57, 46, 45, 101, 32}

\* inf, Infinity, nan, abc, 1e400, 1e30, 12.9, -12.9, 2^63 - 1,
\* 0.99999999999999999 and 9007199254740993
MoneySamples ==
    {<<105, 110, 102>>, <<73, 110, 102, 105, 110, 105, 116, 121>>, <<110, 97, 110>>,
     <<97, 98, 99>>, <<49, 101, 52, 48, 48>>, <<49, 101, 51, 48>>,
     <<49, 50, 46, 57>>, <<45, 49, 50, 46, 57>>,
     <<57, 50, 50, 51, 51, 55, 50, 48, 51, 54, 56, 53, 52, 55, 55, 53, 56, 48, 55>>,
     <<48, 46, 57, 57, 57, 57, 57, 57, 57, 57, 57, 57, 57, 57, 57, 57, 57, 57, 57>>,
     <<57, 48, 48, 55, 49, 57, 57, 50, 53, 52, 55, 52, 48, 57, 57, 51>>}

MoneyFields ==
    {None, Some(0), Some(12), Some(0 - 7), Some(2147483647)}
    \cup {Text(t) : t \in SeqsUpTo(MoneyChars, MaxTextLen) \cup MoneySamples}

InitMoney ==
    /\ mField \in MoneyFields
    /\ mPc = "call"
    /\ mOut = <<>>
    /\ CoreIdle
    /\ BestIdle
    /\ CodecIdle
    /\ BuildIdle
    /\ MoreIdle

\* highscores.py:41-50: the int is returned
MoneyReturn ==
    /\ mPc = "call"
    /\ to_money64(mField).exc = "none"
    /\ mOut' = to_money64(mField).val
    /\ mPc' = "returned"
    /\ UNCHANGED mField
    /\ UNCHANGED notMoney

\* highscores.py:47: an exception that is not a ValueError leaves the function
MoneyRaise ==
    /\ mPc = "call"
    /\ to_money64(mField).exc # "none"
    /\ mOut' = to_money64(mField).exc
    /\ mPc' = "raised"
    /\ UNCHANGED mField
    /\ UNCHANGED notMoney

NextMoney == MoneyReturn \/ MoneyRaise
SpecMoney == InitMoney /\ [][NextMoney]_vars

(***************************************************************************)
(* C20.  The number a text denotes, truncated toward zero: the digits      *)
(* before the point once the exponent has moved it.                        *)
(***************************************************************************)
RefTruncated(t) ==
    LET p == ParseFloat(t)
        ds == p.ip \o p.fp
        e10 == p.exp - Len(p.fp)
        kept == IF e10 >= 0 THEN ds \o Zeros(e10) ELSE SubSeq(ds, 1, Len(ds) + e10)
    IN PyInt(p.neg, MagOfDigits(kept, 0, Len(kept), {}))

\* the int the coercion is to give: 0 for an absent, empty or non-numeric
\* field, the truncated number otherwise
RefMoney(field) ==
    LET t == IF IsText(field) THEN field[2] ELSE Str(field[1])
    IN IF field = None THEN PyInt(FALSE, {})
       ELSE IF ParseFloat(t).kind # "dec" THEN PyInt(FALSE, {})
       ELSE RefTruncated(t)

\* C20: for every company_value, to_money64 returns without raising, and
\* returns 0 for an absent, empty or non-numeric field and the number
\* truncated toward zero otherwise.
C20_CoercionNeverFails ==
    mPc # "call" => (mPc = "returned" /\ mOut = RefMoney(mField))

(***************************************************************************)
(* _run_build on a CSV file (highscores.py:232-258), run after run on the  *)
(* same output path.  A row is the cells best_map_from_rows reads.         *)
(***************************************************************************)
MaxRuns == 2

CsvRow(filename, winner, company_value) ==
    [filename |-> filename, winner |-> winner, company_value |-> Text(company_value)]

\* SC1.SC4 by A with 100, sc1.sc4 by B with 200, "a/ b" by w with 5,
\* b.sc4 by n with -4, aa by me with 1e30, q by me with inf
BuildRowSamples ==
    {CsvRow(<<83, 67, 49, 46, 83, 67, 52>>, <<65>>, <<49, 48, 48>>),
     CsvRow(<<115, 99, 49, 46, 115, 99, 52>>, <<66>>, <<50, 48, 48>>),
     CsvRow(<<97, 47, 32, 98>>, <<119>>, <<53>>),
     CsvRow(<<98, 46, 115, 99, 52>>, <<110>>, <<45, 52>>),
     CsvRow(<<97, 97>>, <<109, 101>>, <<49, 101, 51, 48>>),
     CsvRow(<<113>>, <<109, 101>>, <<105, 110, 102>>)}

BuildRowLists ==
    {<<>>} \cup {<<a>> : a \in BuildRowSamples}
           \cup {<<a, b>> : a \in BuildRowSamples, b \in BuildRowSamples}

\* best_map_from_rows(rs).  TLC computes the table of the sample lists once.
BestOfSamples == [rs \in BuildRowLists |-> best_map_from_rows(rs)]
BestOf(rs) == IF rs \in BuildRowLists THEN BestOfSamples[rs] ELSE best_map_from_rows(rs)

\* _run_build (highscores.py:233-258) on the output file f (None: no file),
\* the rows rs of the CSV file and the merge flag mg: the exception that
\* leaves it, the file left, and the map handed to write_from_map
run_build(f, rs, mg) ==
    LET Written(handed, written) ==
            [exc |-> written.exc, file |-> Some(written.file), handed |-> Some(handed)]
        Handed(handed) == Written(handed, write_from_map(handed))
        Built(existing, new_map) ==
            IF new_map.exc # "none" THEN [exc |-> new_map.exc, file |-> f, handed |-> None]
            ELSE Handed(IF mg THEN MergeFold(new_map.map, 0, existing) ELSE new_map.map)
    IN Built(IF mg /\ f # None THEN load_highscores(f) ELSE <<>>, BestOf(rs))

\* The entries of the score file f, in file order, as the rows of a CSV file
RowsOfFile(f) ==
    LET m == load_highscores(f)
    IN Tup([k \in 1..Len(m) |-> CsvRow(m[k].val[1], m[k].val[2], StrInt(m[k].val[3]))], Len(m))

\* The output file before the first run: as for the archive builds, or one
\* whose only entry, c.sc4 with 3, has no winner.
BuildFilesBefore ==
    ScoreFilesBefore
    \cup {Some(ScoreFileOf(<< << <<99, 46, 115, 99, 52>>, <<>>, PyInt(FALSE, {0, 1}), PyInt(FALSE, {0}) >> >>))}

InitBuild ==
    /\ bFile \in BuildFilesBefore
    /\ bBefore = bFile
    /\ bRows = <<>> /\ bMerge = FALSE /\ bHanded = None /\ bExc = "none"
    /\ bPc = "ready"
    /\ bN = 0
    /\ bFirst = bFile
    /\ bHist = <<>>
    /\ CoreIdle
    /\ MoneyIdle
    /\ BestIdle
    /\ CodecIdle
    /\ MoreIdle

\* highscores.py:232-258: one run, on rows of its own or on the entries of
\* the output file
RunBuild ==
    /\ bN < MaxRuns
    /\ \E rs \in BuildRowLists \cup {RowsOfFile(bFile)}, mg \in BOOLEAN :
          \E ran \in {run_build(bFile, rs, mg)} :
             /\ bRows' = rs
             /\ bMerge' = mg
             /\ bFile' = ran.file
             /\ bHanded' = ran.handed
             /\ bExc' = ran.exc
             /\ bPc' = IF ran.exc = "none" THEN "returned" ELSE "raised"
             /\ bHist' = Append(bHist, [rs |-> rs, mg |-> mg])
    /\ bBefore' = bFile
    /\ bN' = bN + 1
    /\ UNCHANGED bFirst
    /\ UNCHANGED notBuild

NextBuild == RunBuild
SpecBuild == InitBuild /\ [][NextBuild]_vars

(***************************************************************************)
(* C11.  What the last run had before it, what its rows reduce to, and     *)
(* what the output file holds after it.                                    *)
(***************************************************************************)
Keys(m) == {m[j].key : j \in 1..Len(m)}
EntryAt(m, k) == MapGet(m, k)[1]

ExistingMap == IF bBefore = None THEN <<>> ELSE load_highscores(bBefore)
NewBest == best_map_from_rows(bRows)
FileAfter == IF bFile = None THEN <<>> ELSE load_highscores(bFile)

\* the larger of the values two maps hold for k, or the one there is
MaxHeld(m1, m2, k) ==
    IF k \notin Keys(m1) THEN EntryAt(m2, k)[3]
    ELSE IF k \notin Keys(m2) THEN EntryAt(m1, k)[3]
    ELSE IF IntLess(EntryAt(m1, k)[3], EntryAt(m2, k)[3]) THEN EntryAt(m2, k)[3]
    ELSE EntryAt(m1, k)[3]

\* the last run was a merge that reduced its rows to a best-map
MergeRan == bN > 0 /\ bMerge /\ NewBest.exc = "none"

\* C11: after a merge, for every key of the existing map or of the new
\* best-map the output file holds, for that key, the maximum of the values
\* the two maps hold for it.
C11_MergeWritesMaximum ==
    MergeRan =>
        \A k \in Keys(ExistingMap) \cup Keys(NewBest.map) :
            /\ k \in Keys(FileAfter)
            /\ EntryAt(FileAfter, k)[3] = MaxHeld(ExistingMap, NewBest.map, k)

(***************************************************************************)
(* C12.                                                                    *)
(***************************************************************************)
\* C12: scores never regress over a merge run: every entry the output file
\* held before the run has, in the file after it, an entry of the same
\* lowercased filename with a value that is not smaller.
C12_ScoresNeverRegress ==
    (bN > 0 /\ bMerge) =>
        \A j \in 1..Len(ExistingMap) :
            \E k \in 1..Len(FileAfter) :
                /\ lower(FileAfter[k].val[1]) = lower(ExistingMap[j].val[1])
                /\ ~IntLess(FileAfter[k].val[3], ExistingMap[j].val[3])

(***************************************************************************)
(* C13.                                                                    *)
(***************************************************************************)
\* f is a score file as write_from_map writes one: writing the entries it
\* holds gives f back
Canonical(f) ==
    /\ write_from_map(load_highscores(f)).exc = "none"
    /\ write_from_map(load_highscores(f)).file = f[1]

\* the last run merged the entries of the output file into it
MergedOwnEntries ==
    /\ bN > 0 /\ bMerge
    /\ bBefore # None
    /\ Canonical(bBefore)
    /\ bRows = RowsOfFile(bBefore)

\* C13: merging is idempotent: a merge whose rows are the entries of the
\* existing score file (filename, winner and value of each) writes a file
\* identical to the existing one.
C13_MergeIdempotent == MergedOwnEntries => (bExc = "none" /\ bFile = bBefore)

(***************************************************************************)
(* C15.  The lowercased filenames a score file holds, whatever its header  *)
(* says: from offset pos on, an entry is two strings and sixteen bytes.    *)
(***************************************************************************)
RECURSIVE NamesWritten(_, _)
NamesWritten(f, pos) ==
    IF pos >= Len(f) THEN {}
    ELSE {lower(read_cstring(f, pos).s)}
         \cup NamesWritten(f, Min(read_cstring(f, read_cstring(f, pos).next).next + 16, Len(f)))

\* C15: in the map a build hands to write_from_map every key is the
\* lowercased filename of its entry, and the count in the header of the
\* file written is the number of distinct lowercased filenames in it.
C15_OneEntryPerFilename ==
    (bN > 0 /\ bHanded # None) =>
        /\ \A j \in 1..Len(bHanded[1]) : bHanded[1][j].key = lower(bHanded[1][j].val[1])
        /\ FromBytes(Slice(bFile[1], 4, 8)) = BitsOf(Cardinality(NamesWritten(bFile[1], 8)), 31)

(***************************************************************************)
(* C16.                                                                    *)
(***************************************************************************)
\* filename and winner of the entry e are not empty
Named(e) == e[1] # <<>> /\ e[2] # <<>>

\* C16: a build keeps only entries with a filename and a winner: every
\* entry of the best-map of its rows has both, and so has every entry of
\* the score file it writes, whatever the existing file holds.
C16_OnlyNamedEntries ==
    (bN > 0 /\ bExc = "none") =>
        /\ \A j \in 1..Len(NewBest.map) : Named(NewBest.map[j].val)
        /\ \A j \in 1..Len(FileAfter) : Named(FileAfter[j].val)

(***************************************************************************)
(* C17.                                                                    *)
(***************************************************************************)
\* C17: a merge writes every entry of the existing file whose key the new
\* best-map does not hold with its four fields unchanged, and drops none.
C17_MergeKeepsOtherEntries ==
    MergeRan =>
        \A j \in 1..Len(ExistingMap) :
            ExistingMap[j].key \notin Keys(NewBest.map) =>
                /\ ExistingMap[j].key \in Keys(FileAfter)
                /\ EntryAt(FileAfter, ExistingMap[j].key) = ExistingMap[j].val

(***************************************************************************)
(* best_map_from_rows run on its own (highscores.py:130-148).              *)
(***************************************************************************)
MaxBestRows == 3

\* SC1.SC4 by A with 100, sc1.sc4 by B with 200, SC1.SC4 by T with 200,
\* Sc1.Sc4 with 300 and no winner, no filename by X with 900,
\* dir/other.sc4 by C with abc, q by me with inf
BestRowSamples ==
    {CsvRow(<<83, 67, 49, 46, 83, 67, 52>>, <<65>>, <<49, 48, 48>>),
     CsvRow(<<115, 99, 49, 46, 115, 99, 52>>, <<66>>, <<50, 48, 48>>),
     CsvRow(<<83, 67, 49, 46, 83, 67, 52>>, <<84>>, <<50, 48, 48>>),
     CsvRow(<<83, 99, 49, 46, 83, 99, 52>>, <<32>>, <<51, 48, 48>>),
     CsvRow(<<32, 47>>, <<88>>, <<57, 48, 48>>),
     CsvRow(<<100, 105, 114, 47, 111, 116, 104, 101, 114, 46, 115, 99, 52>>, <<67>>, <<97, 98, 99>>),
     CsvRow(<<113>>, <<109, 101>>, <<105, 110, 102>>)}

InitBest ==
    /\ bmRows \in SeqsUpTo(BestRowSamples, MaxBestRows)
    /\ bmPc = "call"
    /\ bmOut = <<>>
    /\ CoreIdle
    /\ MoneyIdle
    /\ CodecIdle
    /\ BuildIdle
    /\ MoreIdle

\* highscores.py:135-148: the map is returned
BestReturn ==
    /\ bmPc = "call"
    /\ best_map_from_rows(bmRows).exc = "none"
    /\ bmOut' = best_map_from_rows(bmRows).map
    /\ bmPc' = "returned"
    /\ UNCHANGED bmRows
    /\ UNCHANGED notBest

\* highscores.py:143: an exception of to_money64 leaves the function
BestRaise ==
    /\ bmPc = "call"
    /\ best_map_from_rows(bmRows).exc # "none"
    /\ bmOut' = best_map_from_rows(bmRows).exc
    /\ bmPc' = "raised"
    /\ UNCHANGED bmRows
    /\ UNCHANGED notBest

NextBest == BestReturn \/ BestRaise
SpecBest == InitBest /\ [][NextBest]_vars

(***************************************************************************)
(* C14.  The rows that count are those with a filename and a winner; the   *)
(* key of a row is its filename's final component in lower case.           *)
(***************************************************************************)
RowName(r) == PathName(strip(r.filename))
Counts(r) == RowName(r) # <<>> /\ strip(r.winner) # <<>>
Group(rs, k) == {j \in 1..Len(rs) : Counts(rs[j]) /\ lower(RowName(rs[j])) = k}
RowValue(r) == to_money64(r.company_value).val

\* the rows of the group that hold its maximum value
Holders(rs, k) ==
    {j \in Group(rs, k) : \A h \in Group(rs, k) : ~IntLess(RowValue(rs[j]), RowValue(rs[h]))}

\* the rows in another order
Orders(rs) == {p \in [1..Len(rs) -> 1..Len(rs)] : \A a, b \in 1..Len(rs) : p[a] = p[b] => a = b}
Reordered(rs, p) == Tup([k \in 1..Len(rs) |-> rs[p[k]]], Len(rs))

\* C14: rows whose filenames differ only in case collapse into one entry
\* under the lowercased filename; its value is the maximum among them, its
\* filename and winner are those of a row holding that maximum, and the
\* entry is the same in whatever order the rows come.
C14_CollapsesByCase ==
    bmPc = "returned" =>
        /\ Keys(bmOut) = {lower(RowName(bmRows[j])) : j \in {h \in 1..Len(bmRows) : Counts(bmRows[h])}}
        /\ Cardinality(Keys(bmOut)) = Len(bmOut)
        /\ \A k \in Keys(bmOut) :
              \E j \in Holders(bmRows, k) :
                  EntryAt(bmOut, k) = <<RowName(bmRows[j]), strip(bmRows[j].winner),
                                        RowValue(bmRows[j]), INT64_MIN>>
        /\ \A p \in Orders(bmRows) :
              \A k \in Keys(bmOut) :
                  EntryAt(best_map_from_rows(Reordered(bmRows, p)).map, k) = EntryAt(bmOut, k)

(***************************************************************************)
(* write_from_map and load_highscores run on their own                     *)
(* (highscores.py:110-127, 151-162): a map is written, and the file that   *)
(* a write which returned has left is loaded.                              *)
(***************************************************************************)
MaxEntries == 3

\* A.sc4 by x with -3 and no timestamp; b.SC4 by w with 7 at 1; the Latin-1
\* name \xC9t\xE9.SC4 by Zo\xEB with 2^63 - 1 at -1; a.SC4 by y with -2^63
\* at 2^63 - 1; an entry of empty strings; aa by me with 2^63
EntrySamples ==
    {<< <<65, 46, 115, 99, 52>>, <<120>>, PyInt(TRUE, {0, 1}), INT64_MIN >>,
     << <<98, 46, 83, 67, 52>>, <<119>>, PyInt(FALSE, {0, 1, 2}), PyInt(FALSE, {0}) >>,
     << <<201, 116, 233, 46, 83, 67, 52>>, <<90, 111, 235>>, PyInt(FALSE, 0..62), PyInt(TRUE, {0}) >>,
     << <<97, 46, 83, 67, 52>>, <<121>>, PyInt(TRUE, {63}), PyInt(FALSE, 0..62) >>,
     << <<>>, <<>>, PyInt(FALSE, {}), PyInt(FALSE, {}) >>,
     << <<97, 97>>, <<109, 101>>, PyInt(FALSE, {63}), INT64_MIN >>}

\* The dicts keyed by lowercased filename with at most MaxEntries of the
\* sample entries, in every insertion order
EntryMaps ==
    {Tup([k \in 1..Len(es) |-> [key |-> lower(es[k][1]), val |-> es[k]]], Len(es)) :
        es \in {t \in SeqsUpTo(EntrySamples, MaxEntries) :
                    \A a, b \in 1..Len(t) : lower(t[a][1]) = lower(t[b][1]) => a = b}}

InitCodec ==
    /\ cMap \in EntryMaps
    /\ cOther \in {m \in EntryMaps : Len(m) = Len(cMap) /\ \A k \in 1..Len(m) : \E j \in 1..Len(m) : m[k] = cMap[j]}
    /\ cFile = None /\ cFileOther = None /\ cLoaded = <<>>
    /\ cPc = "write"
    /\ CoreIdle
    /\ MoneyIdle
    /\ BestIdle
    /\ BuildIdle
    /\ MoreIdle

\* highscores.py:151-162: write_from_map returns, on each of the two maps
CodecWrite ==
    /\ cPc = "write"
    /\ write_from_map(cMap).exc = "none"
    /\ cFile' = Some(write_from_map(cMap).file)
    /\ cFileOther' = Some(write_from_map(cOther).file)
    /\ cPc' = "written"
    /\ UNCHANGED <<cMap, cOther, cLoaded>>
    /\ UNCHANGED notCodec

\* highscores.py:161-162: struct.pack raises, on each of the two maps
CodecWriteRaise ==
    /\ cPc = "write"
    /\ write_from_map(cMap).exc # "none"
    /\ cFile' = Some(write_from_map(cMap).file)
    /\ cFileOther' = Some(write_from_map(cOther).file)
    /\ cPc' = "raised"
    /\ UNCHANGED <<cMap, cOther, cLoaded>>
    /\ UNCHANGED notCodec

\* highscores.py:110-127
CodecLoad ==
    /\ cPc = "written"
    /\ cLoaded' = load_highscores(cFile)
    /\ cPc' = "loaded"
    /\ UNCHANGED <<cMap, cOther, cFile, cFileOther>>
    /\ UNCHANGED notCodec

NextCodec == CodecWrite \/ CodecWriteRaise \/ CodecLoad
SpecCodec == InitCodec /\ [][NextCodec]_vars

(***************************************************************************)
(* C18.                                                                    *)
(***************************************************************************)
\* value and timestamp of the entry e are signed 64-bit integers
RefInRange(e) ==
    /\ (e[3].neg => (e[3].mag = {63} \/ \A k \in e[3].mag : k < 63))
    /\ (~e[3].neg => \A k \in e[3].mag : k < 63)
    /\ (e[4].neg => (e[4].mag = {63} \/ \A k \in e[4].mag : k < 63))
    /\ (~e[4].neg => \A k \in e[4].mag : k < 63)

RECURSIVE RefEntryNames(_, _)
RefEntryNames(f, pos) ==
    LET fn == read_cstring(f, pos)
        last == read_cstring(f, fn.next).next + 16
    IN IF pos >= Len(f) \/ last > Len(f) THEN <<>>
       ELSE <<lower(fn.s)>> \o RefEntryNames(f, last)

\* C19: the file write_from_map leaves starts with version 2 and a count
\* equal to the number of entries written, holds the entries in ascending
\* order of lowercased filename, and is byte for byte the file left for the
\* same entries inserted in another order.
C19_SortedDeterministicFile ==
    cPc # "write" =>
        LET written == RefEntryNames(cFile[1], 8)
        IN /\ Slice(cFile[1], 0, 4) = <<2, 0, 0, 0>>
           /\ FromBytes(Slice(cFile[1], 4, 8)) = BitsOf(Len(written), 31)
           /\ \A j, k \in 1..Len(written) : j < k => ~StrLess(written[k], written[j])
           /\ cFile = cFileOther

(***************************************************************************)
(* C21.                                                                    *)
(***************************************************************************)
\* C21: an archive shorter than 4 bytes makes process_file raise after the
\* length check alone: no checksum is computed, nothing is decompressed,
\* decrypted or parsed, and no CSV, intermediate or score file is written.
\* An archive of exactly 4 bytes passes the length check: it is turned away
\* only for its checksum, and when that matches its body decodes to nothing.
C21_ShortArchiveAborts ==
    /\ Len(raw) < 4 =>
          /\ pc \in {"build", "start", "raised", "build_raised"}
          /\ \A k \in 1..Len(stages) : stages[k] = "length_check"
          /\ decompr_raw = <<>> /\ decryptedBytes = <<>> /\ parsedRows = <<>>
          /\ writes = {}
          /\ fsCsv = None /\ fsDecompressed = None /\ fsDecrypted = None
          /\ fsScore = fsScoreBefore
          /\ pc \in {"raised", "build_raised"} =>
                (err # None /\ err[1].message = "Input file too small to contain checksum")
    /\ Len(raw) = 4 =>
          /\ pc \in {"raised", "build_raised"} =>
                (err # None /\ err[1].message = "Checksum mismatch" /\ raw # RefChecksum(<<>>))
          /\ pc \in {"decompress", "decrypt", "parse", "returned", "built"} => raw = RefChecksum(<<>>)
          /\ pc \in {"decrypt", "parse", "returned", "built"} => decompr_raw = <<>>
          /\ pc \in {"parse", "returned", "built"} => decryptedBytes = <<>>
          /\ pc \in {"returned", "built"} => parsedRows = <<>>

\* process_file, asked to keep its intermediate files, has raised on an
\* archive of 3 bytes, the first 3 of the checksum of an empty body.
C21_Witness ==
    /\ raw = <<193, 212, 1>>
    /\ mode = "process_file"
    /\ keep
    /\ pc = "raised"
    /\ stages = <<"length_check">>

(***************************************************************************)
(* Two operations at once.  Each is process_file (core.py:282-327) or      *)
(* _run_build on an archive (highscores.py:232-258) in a process of its    *)
(* own, with its own locals and its own output path; the file system is    *)
(* the one thing they share.  An operation takes one step at a time and    *)
(* the steps of the two interleave in any order.  process_file writes its  *)
(* intermediate files next to its input under fixed names (core.py:314,    *)
(* 319); rows_from_css0 has it write the CSV in a temporary directory of   *)
(* its own (highscores.py:83-85).                                          *)
(***************************************************************************)
Ops == {1, 2}

\* An archive of 4 bytes with the checksum of its empty body, the same with
\* a wrong checksum, and two archives that decompress to 16 equal bytes
ParArchives ==
    {<<193, 212, 1, 0>>, <<0, 0, 0, 0>>,
     <<241, 65>> \o ChecksumBytes(<<241, 65>>),
     <<241, 66>> \o ChecksumBytes(<<241, 66>>)}

OutPath(o) == <<"out", o>>
TmpCsvPath(o) == <<"tmp", o, "css0_parsed.csv">>
DecompressedPath(dir) == <<"dir", dir, "CSS0.decompressed.raw.bin">>
DecryptedPath(dir) == <<"dir", dir, "CSS0.decrypted.bin">>
CsvPath(o) == IF pOp[o].kind = "build" THEN TmpCsvPath(o) ELSE OutPath(o)

ParPaths ==
    {OutPath(o) : o \in Ops} \cup {TmpCsvPath(o) : o \in Ops}
    \cup {DecompressedPath(dir) : dir \in 1..2} \cup {DecryptedPath(dir) : dir \in 1..2}

\* The arguments of an operation whose input is in the directory dir
ParCalls(dir) ==
    {[kind |-> "process_file", raw |-> r, dir |-> dir, keep |-> k, merge |-> FALSE,
      before |-> None, pc |-> "start", err |-> "none",
      decompr_raw |-> <<>>, decrypted |-> <<>>, rows |-> <<>>, existing_map |-> <<>>] :
        r \in ParArchives, k \in BOOLEAN}
    \cup
    {[kind |-> "build", raw |-> r, dir |-> dir, keep |-> FALSE, merge |-> m,
      before |-> f, pc |-> "build", err |-> "none",
      decompr_raw |-> <<>>, decrypted |-> <<>>, rows |-> <<>>, existing_map |-> <<>>] :
        r \in ParArchives, m \in BOOLEAN, f \in ScoreFilesBefore}

InitPar ==
    /\ pOp \in {<<a, b>> : a \in ParCalls(1), b \in ParCalls(1) \cup ParCalls(2)}
    /\ pFs = [path \in ParPaths |->
                 IF path = OutPath(1) THEN pOp[1].before
                 ELSE IF path = OutPath(2) THEN pOp[2].before ELSE None]
    /\ pLog = {}
    /\ CoreIdle
    /\ ScoreIdle
    /\ RowsIdle
    /\ RdIdle

Read(o, path) == [op |-> o, path |-> path, write |-> FALSE]
Written(o, path) == [op |-> o, path |-> path, write |-> TRUE]

\* highscores.py:233-236: existing_map is loaded from the output path
ParBuildBegin(o) ==
    /\ pOp[o].pc = "build"
    /\ pOp' = [pOp EXCEPT ![o].pc = "start",
                          ![o].existing_map =
                              IF pOp[o].merge /\ pFs[OutPath(o)] # None
                              THEN load_highscores(pFs[OutPath(o)]) ELSE <<>>]
    /\ pLog' = IF pOp[o].merge THEN pLog \cup {Read(o, OutPath(o))} ELSE pLog
    /\ UNCHANGED pFs
    /\ UNCHANGED notPar

\* core.py:299-310: the archive is read, and turned away for its length or
\* its checksum
ParRaise(o) ==
    /\ pOp[o].pc = "start"
    /\ Len(pOp[o].raw) < 4 \/ ~ProcessVerify(pOp[o].raw)[1]
    /\ pOp' = [pOp EXCEPT ![o].pc = "raised", ![o].err = "ValueError"]
    /\ UNCHANGED <<pFs, pLog>>
    /\ UNCHANGED notPar

\* core.py:299-317: the archive is read and verified, and decompressed
ParDecompress(o) ==
    /\ pOp[o].pc = "start"
    /\ Len(pOp[o].raw) >= 4 /\ ProcessVerify(pOp[o].raw)[1]
    /\ pOp' = [pOp EXCEPT ![o].pc = "decrypt", ![o].decompr_raw = rle_decompress(pOp[o].raw)]
    /\ pFs' = IF pOp[o].keep
              THEN [pFs EXCEPT ![DecompressedPath(pOp[o].dir)] = Some(rle_decompress(pOp[o].raw))]
              ELSE pFs
    /\ pLog' = IF pOp[o].keep THEN pLog \cup {Written(o, DecompressedPath(pOp[o].dir))} ELSE pLog
    /\ UNCHANGED notPar

\* core.py:318-322
ParDecrypt(o) ==
    /\ pOp[o].pc = "decrypt"
    /\ pOp' = [pOp EXCEPT ![o].pc = "parse",
                          ![o].decrypted = decrypt_dwords_le(pOp[o].decompr_raw)]
    /\ pFs' = IF pOp[o].keep
              THEN [pFs EXCEPT ![DecryptedPath(pOp[o].dir)] =
                                   Some(decrypt_dwords_le(pOp[o].decompr_raw))]
              ELSE pFs
    /\ pLog' = IF pOp[o].keep THEN pLog \cup {Written(o, DecryptedPath(pOp[o].dir))} ELSE pLog
    /\ UNCHANGED notPar

\* core.py:323-327 and 275-279
ParParseAndWrite(o) ==
    /\ pOp[o].pc = "parse"
    /\ pOp' = [pOp EXCEPT ![o].pc = "returned", ![o].rows = parse_tables(pOp[o].decrypted)]
    /\ pFs' = [pFs EXCEPT ![CsvPath(o)] = Some(write_csv(parse_tables(pOp[o].decrypted)))]
    /\ pLog' = pLog \cup {Written(o, CsvPath(o))}
    /\ UNCHANGED notPar

\* The map _run_build hands to write_from_map (highscores.py:245-255)
ParHanded(o) ==
    LET normalized == Tup([k \in 1..Len(pOp[o].rows) |-> NormalizedRow(pOp[o].rows[k])],
                          Len(pOp[o].rows))
        Handed(new_map) ==
            IF pOp[o].merge THEN MergeFold(new_map, 0, pOp[o].existing_map) ELSE new_map
    IN Handed(best_map_from_rows(normalized).map)

\* highscores.py:83-97 and 245-258
ParBuildWrite(o) ==
    /\ pOp[o].pc = "returned"
    /\ pOp[o].kind = "build"
    /\ pOp' = [pOp EXCEPT ![o].pc = "built"]
    /\ pFs' = [pFs EXCEPT ![TmpCsvPath(o)] = None,
                          ![OutPath(o)] = Some(write_from_map(ParHanded(o)).file)]
    /\ pLog' = pLog \cup {Written(o, OutPath(o))}
    /\ UNCHANGED notPar

\* highscores.py:83-85 and 240: process_file's exception leaves _run_build
ParBuildAbort(o) ==
    /\ pOp[o].pc = "raised"
    /\ pOp[o].kind = "build"
    /\ pOp' = [pOp EXCEPT ![o].pc = "build_raised"]
    /\ UNCHANGED <<pFs, pLog>>
    /\ UNCHANGED notPar

NextPar ==
    \E o \in Ops :
        \/ ParBuildBegin(o) \/ ParRaise(o) \/ ParDecompress(o) \/ ParDecrypt(o)
        \/ ParParseAndWrite(o) \/ ParBuildWrite(o) \/ ParBuildAbort(o)
SpecPar == InitPar /\ [][NextPar]_vars

(***************************************************************************)
(* C22.  What an operation leaves in its output file when it runs alone,   *)
(* from its arguments and the file that was there before.                  *)
(***************************************************************************)
RefValid(r) == Len(r) >= 4 /\ ProcessVerify(r)[1]

RefRowsOf(r) == parse_tables(decrypt_dwords_le(rle_decompress(r)))

RefBest(r) ==
    best_map_from_rows(Tup([k \in 1..Len(RefRowsOf(r)) |-> NormalizedRow(RefRowsOf(r)[k])],
                           Len(RefRowsOf(r)))).map

RefAlone(c) ==
    IF ~RefValid(c.raw) THEN c.before
    ELSE IF c.kind = "process_file" THEN Some(write_csv(RefRowsOf(c.raw)))
    ELSE IF c.merge /\ c.before # None
         THEN Some(write_from_map(MergeFold(RefBest(c.raw), 0, load_highscores(c.before))).file)
    ELSE Some(write_from_map(RefBest(c.raw)).file)

Ended(c) ==
    IF c.kind = "build" THEN c.pc \in {"built", "build_raised"} ELSE c.pc \in {"returned", "raised"}

\* C22: two operations with distinct output files, their steps interleaved
\* in any order, each leave in their own output file what they leave there
\* when run alone, and no file written by one is read or written by the
\* other.
C22_IndependentOperations ==
    /\ \A o \in Ops : Ended(pOp[o]) => pFs[OutPath(o)] = RefAlone(pOp[o])
    /\ \A a, b \in pLog : (a.path = b.path /\ a.write) => a.op = b.op

(***************************************************************************)
(* C23.  The order of the stages of process_file and the bytes each one    *)
(* is given.                                                               *)
(***************************************************************************)
StageOrder ==
    <<"length_check", "verify_checksum", "rle_decompress", "decrypt_dwords_le",
      "parse_tables", "write_csv", "write_from_map">>

\* The bytes over which the checksum is verified: the archive minus its last 4.
RefVerifiedBody(r) == Slice(r, 0, Len(r) - 4)

\* C23: the stages that ran are an initial part of the fixed order (so each
\* ran at most once and in order); a stage ran only if the one before it
\* succeeded (a raised run stops at the failing check, decompression ran
\* only on a verified archive); the bytes decompressed are the bytes the
\* checksum was verified over, still encrypted, and the bytes decrypted are
\* the decompressed ones.
C23_StagesInOrder ==
    /\ \E n \in 0..Len(StageOrder) : stages = SubSeq(StageOrder, 1, n)
    /\ pc \in {"raised", "build_raised"} =>
          /\ err # None
          /\ Len(stages) = IF Len(raw) < 4 THEN 1 ELSE 2
    /\ Len(stages) >= 2 => Len(raw) >= 4
    /\ Len(stages) >= 3 =>
          /\ err = None
          /\ RefChecksum(RefVerifiedBody(raw)) = Slice(raw, Len(raw) - 4, Len(raw))
          /\ decompr_raw = RleLoop(RefVerifiedBody(raw), 0, <<>>)
    /\ Len(stages) >= 4 =>
          decryptedBytes = decrypt_dwords_le(RleLoop(RefVerifiedBody(raw), 0, <<>>))
    /\ Len(stages) >= 6 =>
          /\ parsedRows = parse_tables(decryptedBytes)
          /\ (mode = "process_file" => fsCsv = Some(write_csv(parsedRows)))
    /\ Len(stages) < 3 => decompr_raw = <<>>
    /\ Len(stages) < 4 => decryptedBytes = <<>>
    /\ Len(stages) < 6 => (parsedRows = <<>> /\ fsCsv = None)

\* process_file returned after all six stages, on an archive whose body
\* decompresses to bytes that decryption changes.
C23_Witness ==
    /\ mode = "process_file"
    /\ pc = "returned"
    /\ stages = SubSeq(StageOrder, 1, 6)
    /\ Len(decompr_raw) >= 4
    /\ decryptedBytes # decompr_raw
    /\ decompr_raw # RefVerifiedBody(raw)

(***************************************************************************)
(* C24.  The timestamps of the best-map and of the file a merge writes.    *)
(***************************************************************************)
\* the timestamp the file after the run holds for its j-th entry is the
\* sentinel, or the one the existing file held for that key
SentinelOrKept(j) ==
    \/ FileAfter[j].val[4] = INT64_MIN
    \/ /\ FileAfter[j].key \in Keys(ExistingMap)
       /\ FileAfter[j].val[4] = EntryAt(ExistingMap, FileAfter[j].key)[4]

\* C24: every entry of the best-map has the sentinel timestamp; in the file
\* written by a merge each entry's timestamp is the sentinel or the one the
\* existing file held for its key, and an existing entry replaced by a
\* strictly larger new value has the sentinel.
C24_TimestampsSentinelOrKept ==
    /\ (bN > 0 /\ NewBest.exc = "none") =>
          \A j \in 1..Len(NewBest.map) : NewBest.map[j].val[4] = INT64_MIN
    /\ (bN > 0 /\ bMerge /\ bHanded # None) =>
          /\ \A j \in 1..Len(FileAfter) : SentinelOrKept(j)
          /\ \A k \in Keys(ExistingMap) \cap Keys(NewBest.map) :
                IntLess(EntryAt(ExistingMap, k)[3], EntryAt(NewBest.map, k)[3]) =>
                    (k \in Keys(FileAfter) /\ EntryAt(FileAfter, k)[4] = INT64_MIN)

(***************************************************************************)
(* build_from_rows (highscores.py:53-72, and the same code at              *)
(* build_highscores.py:57-76) run on its own.                              *)
(***************************************************************************)
MaxRowsLen == 2

\* SC1.SC4 by A with 100, " dir/b.sc4 " by " w " with 5, "/" by X with 900,
\* "." by Y with 7, no filename by Z with 1, c.sc4 by " " with 3,
\* aa by me with 1e30, q by me with inf
RowsSamples ==
    {CsvRow(<<83, 67, 49, 46, 83, 67, 52>>, <<65>>, <<49, 48, 48>>),
     CsvRow(<<32, 100, 105, 114, 47, 98, 46, 115, 99, 52, 32>>, <<32, 119, 32>>, <<53>>),
     CsvRow(<<47>>, <<88>>, <<57, 48, 48>>),
     CsvRow(<<46>>, <<89>>, <<55>>),
     CsvRow(<<>>, <<90>>, <<49>>),
     CsvRow(<<99, 46, 115, 99, 52>>, <<32>>, <<51>>),
     CsvRow(<<97, 97>>, <<109, 101>>, <<49, 101, 51, 48>>),
     CsvRow(<<113>>, <<109, 101>>, <<105, 110, 102>>)}

\* highscores.py:54: the rows kept
RowKept(r) == strip(r.filename) # <<>> /\ strip(r.winner) # <<>>

\* highscores.py:61-69: the loop from row k of the kept rows on; f is what
\* has been written.  to_money64 is called before the entry's strings are
\* written and struct.pack after them; an exception of either closes the
\* file with what was written before.
RECURSIVE RowsWrite(_, _, _)
RowsWrite(filtered, k, f) ==
    LET Packed(strs, money64) ==
            IF ~InInt64(money64) THEN [exc |-> "struct.error", file |-> strs]
            ELSE RowsWrite(filtered, k + 1, strs \o (PackQ(money64) \o PackQ(INT64_MIN)))
        Entry(file_name_only, winner, money64) ==
            IF money64.exc # "none" THEN [exc |-> money64.exc, file |-> f]
            ELSE Packed(f \o (write_cstring(file_name_only) \o write_cstring(winner)),
                        money64.val)
        Row(r) == Entry(PathName(strip(r.filename)), strip(r.winner), to_money64(r.company_value))
    IN IF Now(f) /\ k >= Len(filtered) THEN [exc |-> "none", file |-> f]
       ELSE Row(filtered[k + 1])

\* build_from_rows (highscores.py:53-72): the exception, and the file left
build_from_rows(rs) ==
    LET Opened(filtered) == RowsWrite(filtered, 0, PackI(VERSION) \o PackI(Len(filtered)))
    IN Opened(SelectSeq(rs, RowKept))

InitRows ==
    /\ rbRows \in SeqsUpTo(RowsSamples, MaxRowsLen)
    /\ rbFile = None
    /\ rbExc = "none"
    /\ rbPc = "call"
    /\ CoreIdle
    /\ ScoreIdle
    /\ ParIdle
    /\ RdIdle

\* highscores.py:56-72: every kept row was written
RowsReturn ==
    /\ rbPc = "call"
    /\ \E ran \in {build_from_rows(rbRows)} :
          /\ ran.exc = "none"
          /\ rbFile' = Some(ran.file)
    /\ rbPc' = "returned"
    /\ UNCHANGED <<rbRows, rbExc>>
    /\ UNCHANGED notRows

\* highscores.py:64-69: an exception leaves the with block, which closes the file
RowsRaise ==
    /\ rbPc = "call"
    /\ \E ran \in {build_from_rows(rbRows)} :
          /\ ran.exc # "none"
          /\ rbFile' = Some(ran.file)
          /\ rbExc' = ran.exc
    /\ rbPc' = "raised"
    /\ UNCHANGED rbRows
    /\ UNCHANGED notRows

NextRows == RowsReturn \/ RowsRaise
SpecRows == InitRows /\ [][NextRows]_vars

(***************************************************************************)
(* C25.  The entries a score file holds in full after its header: from     *)
(* offset pos on, an entry is two strings and sixteen bytes.               *)
(***************************************************************************)
RECURSIVE RefEntriesWritten(_, _)
RefEntriesWritten(f, pos) ==
    LET fn == read_cstring(f, pos)
        name == read_cstring(f, fn.next)
    IN IF pos >= Len(f) \/ name.next + 16 > Len(f) THEN <<>>
       ELSE << <<fn.s, name.s>> >> \o RefEntriesWritten(f, name.next + 16)

\* C25: every entry build_from_rows writes has a non-empty filename and a
\* non-empty winner, whatever the rows, and the count in the header is the
\* number of entries that follow it.
C25_RowsEntriesNamed ==
    rbPc \in {"returned", "raised"} =>
        /\ \A j \in 1..Len(RefEntriesWritten(rbFile[1], 8)) :
               Named(RefEntriesWritten(rbFile[1], 8)[j])
        /\ FromBytes(Slice(rbFile[1], 4, 8)) = BitsOf(Len(RefEntriesWritten(rbFile[1], 8)), 31)

(***************************************************************************)
(* C26.  The tables lie back to back, so a table holds entries only when   *)
(* the tables before it are full.                                          *)
(***************************************************************************)
\* best_map_from_rows skips the row r of parse_tables
RefSkipped(r) == BestStep([exc |-> "none", map |-> <<>>], NormalizedRow(r)).map = <<>>

\* C26: for every buffer length, a table that yields an entry has every
\* table before it full, so a winner table with an entry means 128 company
\* values, scenario names and filenames; every row with a non-empty winner
\* has a company value, and a row without one never becomes an entry of the
\* best-map (where None would be coerced to 0).
C26_CountsMonotone ==
    parsePc = "done" =>
        /\ Len(wins) >= 1 => (Len(comps) = 128 /\ Len(names) = 128 /\ Len(files) = 128)
        /\ Len(comps) >= 1 => (Len(names) = 128 /\ Len(files) = 128)
        /\ Len(names) >= 1 => Len(files) = 128
        /\ \A k \in 1..Len(rows) :
              /\ rows[k].winner # <<>> => rows[k].company_value # None
              /\ rows[k].company_value = None => RefSkipped(rows[k])

\* A buffer ending with one whole winner record was parsed: the first row
\* has a winner and a company value, the last rows have neither.
C26_Witness ==
    /\ parsePc = "done"
    /\ Len(decrypted) = 10752 + 32
    /\ Len(wins) = 1 /\ Len(comps) = 128
    /\ rows[1].winner # <<>> /\ rows[1].company_value # None
    /\ rows[128].winner = <<>>

(***************************************************************************)
(* _run_build on an output path that holds no entry yet.                   *)
(***************************************************************************)
\* No file, a file of no bytes, a file with count 0, one with count 0 and
\* bytes after it, and one with count 1 and no entry.
FreshFiles ==
    {None,
     Some(<<>>),
     Some(ScoreFileOf(<<>>)),
     Some(ScoreFileOf(<<>>) \o <<65, 0>>),
     Some(PackI(VERSION) \o PackI(1))}

InitFresh ==
    /\ bFile \in FreshFiles
    /\ bBefore = bFile
    /\ bRows = <<>> /\ bMerge = FALSE /\ bHanded = None /\ bExc = "none"
    /\ bPc = "ready"
    /\ bN = 0
    /\ bFirst = bFile
    /\ bHist = <<>>
    /\ CoreIdle
    /\ MoneyIdle
    /\ BestIdle
    /\ CodecIdle
    /\ MoreIdle

\* highscores.py:232-258: the first run on the path
FreshBuild == bN = 0 /\ RunBuild

NextFresh == FreshBuild
SpecFresh == InitFresh /\ [][NextFresh]_vars

(***************************************************************************)
(* C27.                                                                    *)
(***************************************************************************)
\* the output file before the run does not exist, or its count is zero
RefNoEntries(f) == f = None \/ FromBytes(Slice(f[1], 4, 8)) = {}

\* C27: a merge run on an output file that does not exist or holds zero
\* entries leaves the file, and ends (returning or raising), exactly as a
\* run without merge does on the same rows.
C27_FreshMergeIsBuild ==
    (bN = 1 /\ bMerge /\ RefNoEntries(bBefore)) =>
        /\ bFile = run_build(bBefore, bRows, FALSE).file
        /\ bExc = run_build(bBefore, bRows, FALSE).exc

\* A merge on a file with count 0 wrote two entries.
C27_Witness ==
    /\ bN = 1 /\ bMerge
    /\ bBefore = Some(ScoreFileOf(<<>>))
    /\ bExc = "none"
    /\ bFile # bBefore
    /\ Len(FileAfter) = 2

(***************************************************************************)
(* C28.                                                                    *)
(***************************************************************************)
\* C28: every value and timestamp a build hands to write_from_map is in
\* the signed 64-bit range, so the write does not fail once the file is
\* open: the file left holds as many entries as its header says.
C28_HandedInInt64 ==
    (bN > 0 /\ bHanded # None) =>
        /\ \A j \in 1..Len(bHanded[1]) :
               InInt64(bHanded[1][j].val[3]) /\ InInt64(bHanded[1][j].val[4])
        /\ bExc = "none"
        /\ FromBytes(Slice(bFile[1], 4, 8)) = BitsOf(Len(RefEntriesWritten(bFile[1], 8)), 31)

(***************************************************************************)
(* C29.  Merge runs on one output path, one after another.                 *)
(***************************************************************************)
\* the rows of run j that count, and the keys of the rows of all runs
RefCounting(j) == {h \in 1..Len(bHist[j].rs) : Counts(bHist[j].rs[h])}
RefInputKeys ==
    UNION {{lower(RowName(bHist[j].rs[h])) : h \in RefCounting(j)} : j \in 1..Len(bHist)}

\* the values the first file and the rows of all runs hold for the key k
RefHeld(k) ==
    (IF k \in Keys(load_highscores(bFirst)) THEN {EntryAt(load_highscores(bFirst), k)[3]} ELSE {})
    \cup UNION {{to_money64(bHist[j].rs[h].company_value).val :
                    h \in {g \in RefCounting(j) : lower(RowName(bHist[j].rs[g])) = k}} :
                j \in 1..Len(bHist)}

\* the file left by the merge runs hist[k..1] run in that order on the file f
RECURSIVE RefReplay(_, _, _)
RefReplay(f, hist, k) ==
    IF Now(f) /\ k = 0 THEN f ELSE RefReplay(run_build(f, hist[k].rs, TRUE).file, hist, k - 1)

RefValues(m) == {<<m[j].key, m[j].val[3]>> : j \in 1..Len(m)}

\* C29: after merge runs executed one after another on the same path the
\* keys of the file are those of the first file and of all inputs, the
\* value of each key is the maximum of the values they hold for it, and the
\* runs executed in the opposite order leave the same keys and values.
C29_SerializedMerges ==
    (bN > 0 /\ \A j \in 1..Len(bHist) : bHist[j].mg) =>
        /\ Keys(FileAfter) = Keys(load_highscores(bFirst)) \cup RefInputKeys
        /\ \A k \in Keys(FileAfter) :
              /\ EntryAt(FileAfter, k)[3] \in RefHeld(k)
              /\ \A v \in RefHeld(k) : ~IntLess(EntryAt(FileAfter, k)[3], v)
        /\ RefValues(FileAfter) = RefValues(load_highscores(RefReplay(bFirst, bHist, Len(bHist))))

(***************************************************************************)
(* rle_decode (rct_progess.py:66-83), the high-bit formulation, run on a   *)
(* compressed body (read_rct_progress hands it the archive without its     *)
(* last 4 bytes).                                                          *)
(***************************************************************************)
MaxRdLen == 3

\* rct_progess.py:69-81: the loop from index k on; o is decoded.  data[i]
\* after a run's control byte raises IndexError when that byte is the last.
RECURSIVE RdLoop(_, _, _)
RdLoop(d, k, o) ==
    LET Run(run_length) ==
            IF k + 1 >= Len(d) THEN [exc |-> "IndexError", out |-> o]
            ELSE RdLoop(d, k + 2, o \o Tup([j \in 1..run_length |-> d[k + 2]], run_length))
        Literal(literal_length) ==
            RdLoop(d, (k + literal_length) + 1, o \o Slice(d, k + 1, (k + 1) + literal_length))
    IN IF Now(o) /\ k >= Len(d) THEN [exc |-> "none", out |-> o]
       ELSE IF d[k + 1] >= 128 THEN Run((d[k + 1] % 128) + 1)
       ELSE Literal((d[k + 1] % 128) + 1)

\* rle_decode (rct_progess.py:66-83): the exception, and the bytes returned
rle_decode(d) == RdLoop(d, 0, <<>>)

InitRd ==
    /\ rdData \in SeqsUpTo(RleBytes, MaxRdLen)
    /\ rdOut = <<>>
    /\ rdPc = "call"
    /\ CoreIdle
    /\ ScoreIdle
    /\ ParIdle
    /\ RowsIdle

\* rct_progess.py:83
RdReturn ==
    /\ rdPc = "call"
    /\ rle_decode(rdData).exc = "none"
    /\ rdOut' = rle_decode(rdData).out
    /\ rdPc' = "returned"
    /\ UNCHANGED rdData
    /\ UNCHANGED notRd

\* rct_progess.py:74: IndexError leaves the function
RdRaise ==
    /\ rdPc = "call"
    /\ rle_decode(rdData).exc # "none"
    /\ rdOut' = <<>>
    /\ rdPc' = "raised"
    /\ UNCHANGED rdData
    /\ UNCHANGED notRd

NextRd == RdReturn \/ RdRaise
SpecRd == InitRd /\ [][NextRd]_vars

(***************************************************************************)
(* C30.                                                                    *)
(***************************************************************************)
\* C30: on every compressed body rle_decode returns, without raising, the
\* bytes core.rle_decompress returns for the archive made of that body and
\* 4 checksum bytes.
C30_RleFormulationsAgree ==
    rdPc # "call" =>
        /\ rdPc = "returned"
        /\ rdOut = rle_decompress(rdData \o <<0, 0, 0, 0>>)

====
